---- MODULE Spec2Model ----
(***************************************************************************)
(* Participant lifecycle and ticket / check-in state machine of the gala   *)
(* event backend (participants/views.py, participants/serializers.py,      *)
(* tickets/views.py, tickets/payment_handlers.py, tickets/models.py).      *)
(*                                                                         *)
(* The database tables are the state: users (identities), participants,    *)
(* tickets and the ticket scan log.  Every HTTP handler is one action that *)
(* models the whole handler; `last` records the last request and its       *)
(* response.  Rows are kept in sequences: a row's primary key is its       *)
(* position.                                                               *)
(***************************************************************************)
EXTENDS Integers, Sequences, FiniteSets, TLC

VARIABLES
    users,                \* accounts user table: [email, username, role, is_active]
    participants,         \* Participant table
    tickets,              \* Ticket table
    scans,                \* TicketScan table (audit log)
    companies,            \* Company table: [name, user]
    participantNullable,  \* whether the tickets.participant_id column accepts
                          \* NULL: tickets/models.py declares the field without
                          \* null=True, tickets/views.py writes and filters NULL;
                          \* either schema may be the deployed one
    requests,             \* the requests in flight, one per server thread
    last                  \* the last request and the response it got

vars == <<users, participants, tickets, scans, companies, participantNullable, requests, last>>

----------------------------------------------------------------------------
(* Bounds of the model *)

\* longest TicketScan log explored
MaxScans == 2

\* largest count / id list length a request carries
MaxBatch == 2

\* most tickets deleted in one run
MaxDeletes == 1

----------------------------------------------------------------------------
(* Values *)

\* a null foreign key (user, approved_by, ticket.participant)
None == 0

\* a null DateTimeField
NullTime == "null"

\* the value timezone.now() yields
Now == "now"

\* request.user of an unauthenticated request
Anonymous == 0

\* a request field that is not in the body
Absent == "<absent>"

HR_ADMIN == "HR_ADMIN"

PARTICIPANT == "P"

\* the role CompanyViewSet.create gives a company account
COMPANY == "COMPANY"

PENDING == "PENDING"

APPROVED == "APPROVED"

REJECTED == "REJECTED"

\* e-mail addresses a registration request may carry
Emails == {"a@x.com", "a@X.COM", "b@x.com"}

\* BaseUserManager.normalize_email lower-cases the domain part
NormalizeEmail(e) ==
    IF e = "a@X.COM" THEN "a@x.com" ELSE e

\* rejection_reason values a request body may carry
ReasonInputs == {Absent, "", " ", "late"}

\* CharField(trim_whitespace=True): the validated value of a present field
Trim(s) ==
    IF s = " " THEN "" ELSE s

\* action values a request body may carry ("approve" is not a valid choice)
ActionInputs == {"approved", "rejected", "pending", "approve"}

ActionChoices == {"approved", "rejected", "pending"}

\* values generate_serial_number() may return
Serials == {"GT2025AA", "GT2025AB"}

\* serial numbers a request may name ("GT2025ZZ" is never generated)
SerialInputs == Serials \cup {"GT2025ZZ", ""}

----------------------------------------------------------------------------
(* Responses *)

\* a request and its response: the operation, the HTTP status code, the
\* request's participant id / serial / action / id list, and the response
\* body's ticket serial, id list, count, holder and message; actor is the
\* user a refused status transition request came from, activities the list
\* the recent-activity feed returns, can_checkin the flag the public ticket
\* verification reports.  Two fields are history: `before` is
\* the status the row had when the request arrived, and `again` tells that
\* the request repeats the previous, successful, request.
Resp(op, code) ==
    [op |-> op, code |-> code, pid |-> None, serial |-> "", action |-> "",
     req |-> << >>, ticket |-> "", ids |-> << >>, count |-> 0, holder |-> None,
     detail |-> "", before |-> "", again |-> FALSE, actor |-> Anonymous,
     activities |-> << >>, can_checkin |-> FALSE]

\* the request repeats the previous request, which succeeded
Repeats(op, pid, serial, action) ==
    /\ last.op = op
    /\ last.code \in {200, 500}
    /\ last.pid = pid
    /\ last.serial = serial
    /\ last.action = action

\* the server threads that handle requests concurrently
Threads == {"t1", "t2"}

NoParticipant ==
    [user |-> None, status |-> "", payment_status |-> "",
     approved_by |-> None, approved_at |-> NullTime, rejection_reason |-> ""]

\* no Ticket object; also what the table keeps at the key of a deleted row
NoTicket ==
    [serial_number |-> "", participant |-> None, status |-> ""]

\* a thread between requests.  A thread in a request holds the handler's
\* position (pc), its arguments (pid, serial), the Participant and Ticket
\* objects it loaded (p, tk) and the primary key of that ticket (tid)
Idle ==
    [pc |-> "idle", pid |-> None, serial |-> "", p |-> NoParticipant,
     tid |-> None, tk |-> NoTicket]

\* the schemas the tickets table may have: tickets/models.py declares
\* Ticket.participant without null=True (NULL refused), while
\* generate_unassigned_tickets and assign_ticket create and filter tickets
\* with a NULL participant (NULL accepted)
ParticipantColumnNull == BOOLEAN

----------------------------------------------------------------------------
(* Initial state: an empty event with one HR admin account *)

Init ==
    /\ users = << [email |-> "hr@x.com", username |-> "hr@x.com",
                   role |-> HR_ADMIN, is_active |-> TRUE] >>
    /\ participants = << >>
    /\ tickets = << >>
    /\ scans = << >>
    /\ companies = << >>
    /\ participantNullable \in ParticipantColumnNull
    /\ requests = [w \in Threads |-> Idle]
    /\ last = Resp("init", 0)

\* the same event after the HR admin created a company, for which
\* CompanyViewSet.create makes an active account with the COMPANY role; the
\* company row itself is saved by CompanySerializer, which has no user field
InitRoles ==
    /\ users = << [email |-> "hr@x.com", username |-> "hr@x.com",
                   role |-> HR_ADMIN, is_active |-> TRUE],
                  [email |-> "co@x.com", username |-> "co@x.com",
                   role |-> COMPANY, is_active |-> TRUE] >>
    /\ participants = << >>
    /\ tickets = << >>
    /\ scans = << >>
    /\ companies = << [name |-> "Acme", user |-> None] >>
    /\ participantNullable \in ParticipantColumnNull
    /\ requests = [w \in Threads |-> Idle]
    /\ last = Resp("init", 0)

----------------------------------------------------------------------------
(* Permissions *)

\* the users a request can be authenticated as
Actors == {Anonymous} \cup {u \in DOMAIN users : users[u].is_active}

IsAuthenticated(actor) ==
    actor # Anonymous

\* variant: every authenticated user passes
IsHRAdmin_AnyAuthenticated(actor) ==
    IsAuthenticated(actor)

IsHRAdmin(actor) ==
    IF ~IsAuthenticated(actor) THEN FALSE ELSE users[actor].role = HR_ADMIN

\* variant: the owner test is not limited to the PARTICIPANT role
has_object_permission_AnyOwner(actor, owner) ==
    IF users[actor].role = HR_ADMIN THEN TRUE ELSE owner = actor

\* IsOwnerOrHRAdmin.has_object_permission for an authenticated requester and
\* an object whose user field is owner (None: the field is null)
has_object_permission(actor, owner) ==
    IF users[actor].role = HR_ADMIN THEN TRUE
    ELSE IF users[actor].role = PARTICIPANT THEN owner = actor
    ELSE FALSE

\* a request of an authenticated user for an object whose user field is
\* owner, under the object-level check of IsOwnerOrHRAdmin
ObjectAccess(actor, owner) ==
    /\ IsAuthenticated(actor)
    /\ UNCHANGED <<users, participants, tickets, scans, participantNullable, companies, requests>>
    /\ last' = [Resp("object_access",
                     IF has_object_permission(actor, owner) THEN 200 ELSE 403)
                EXCEPT !.actor = actor, !.holder = owner]

----------------------------------------------------------------------------
(* Registration *)

\* ParticipantRegistrationSerializer.validate_email
validate_email(e) ==
    ~\E u \in DOMAIN users : users[u].email = e

\* unique constraints of the user table hit by create_user(email, username=email)
UserIntegrityError(e) ==
    \E u \in DOMAIN users :
        \/ users[u].email = NormalizeEmail(e)
        \/ users[u].username = e

\* variant: the account is created active
NewUser_Active(e) ==
    [email |-> NormalizeEmail(e), username |-> e, role |-> PARTICIPANT,
     is_active |-> TRUE]

NewUser(e) ==
    [email |-> NormalizeEmail(e), username |-> e, role |-> PARTICIPANT,
     is_active |-> FALSE]

NewParticipant(uid) ==
    [user |-> uid, status |-> PENDING, payment_status |-> "pending",
     approved_by |-> None, approved_at |-> NullTime, rejection_reason |-> ""]

\* POST participants/register: fault is a database error raised by the
\* Participant insert, after the user row was written
Register(e, fault) ==
    /\ UNCHANGED <<tickets, scans, participantNullable, companies, requests>>
    /\ IF ~validate_email(e)
       THEN /\ UNCHANGED <<users, participants>>
            /\ last' = Resp("register", 400)
       ELSE IF UserIntegrityError(e) \/ fault
       THEN \* the exception leaves transaction.atomic(): rolled back
            /\ UNCHANGED <<users, participants>>
            /\ last' = Resp("register", 500)
       ELSE /\ users' = Append(users, NewUser(e))
            /\ participants' = Append(participants, NewParticipant(Len(users) + 1))
            /\ last' = [Resp("register", 201) EXCEPT !.pid = Len(participants) + 1]

\* POST participants/manual-register (HR admin): the registration followed by
\* participant.status = APPROVED; participant.save()
ManualRegister(actor, e, fault) ==
    /\ UNCHANGED <<tickets, scans, participantNullable, companies, requests>>
    /\ IF ~IsHRAdmin(actor)
       THEN /\ UNCHANGED <<users, participants>>
            /\ last' = Resp("manual_register", 403)
       ELSE IF ~validate_email(e)
       THEN /\ UNCHANGED <<users, participants>>
            /\ last' = Resp("manual_register", 400)
       ELSE IF UserIntegrityError(e) \/ fault
       THEN /\ UNCHANGED <<users, participants>>
            /\ last' = Resp("manual_register", 500)
       ELSE /\ users' = Append(users, NewUser(e))
            /\ participants' = Append(participants,
                   [NewParticipant(Len(users) + 1) EXCEPT !.status = APPROVED])
            /\ last' = [Resp("manual_register", 201) EXCEPT !.pid = Len(participants) + 1]

----------------------------------------------------------------------------
(* Participant status transitions *)

\* variant: validate() does not look at rejection_reason
ApprovalValid_NoReasonCheck(action, reason) ==
    action \in ActionChoices

\* ParticipantApprovalSerializer: ChoiceField, then validate()
ApprovalValid(action, reason) ==
    /\ action \in ActionChoices
    /\ ~(action = "rejected" /\ (reason = Absent \/ Trim(reason) = ""))

\* ParticipantBulkApprovalSerializer: ListField(allow_empty=False,
\* child=IntegerField(min_value=1)), ChoiceField, then validate()
BulkApprovalValid(ids, action, reason) ==
    /\ Len(ids) > 0
    /\ \A i \in DOMAIN ids : ids[i] >= 1
    /\ action \in ActionChoices
    /\ ~(action = "rejected" /\ (reason = Absent \/ Trim(Trim(reason)) = ""))

\* validated_data.get('rejection_reason', '')
ValidatedReason(reason) ==
    IF reason = Absent THEN "" ELSE Trim(reason)

\* variant: the approved branch keeps the old rejection_reason
ApproveRejectRow_KeepsReason(p, actor, action, reason) ==
    IF action = "approved"
    THEN [p EXCEPT !.status = APPROVED, !.approved_by = actor,
                   !.approved_at = Now]
    ELSE IF action = "rejected"
    THEN [p EXCEPT !.status = REJECTED,
                   !.rejection_reason = ValidatedReason(reason),
                   !.approved_by = None, !.approved_at = NullTime]
    ELSE [p EXCEPT !.status = PENDING]

\* the participant row approve_reject saves
ApproveRejectRow(p, actor, action, reason) ==
    IF action = "approved"
    THEN [p EXCEPT !.status = APPROVED, !.approved_by = actor,
                   !.approved_at = Now, !.rejection_reason = ""]
    ELSE IF action = "rejected"
    THEN [p EXCEPT !.status = REJECTED,
                   !.rejection_reason = ValidatedReason(reason),
                   !.approved_by = None, !.approved_at = NullTime]
    ELSE [p EXCEPT !.status = PENDING]

\* the is_active flag the transitions give the linked user
ActiveAfter(action) ==
    action # "rejected"

\* POST participants/admin/view/{pid}/approve_reject
ApproveReject(actor, pid, action, reason) ==
    /\ UNCHANGED <<tickets, scans, participantNullable, companies, requests>>
    /\ IF ~IsHRAdmin(actor)
       THEN /\ UNCHANGED <<users, participants>>
            /\ last' = [Resp("approve_reject", 403) EXCEPT !.actor = actor]
       ELSE IF pid \notin DOMAIN participants
       THEN \* get_object()
            /\ UNCHANGED <<users, participants>>
            /\ last' = Resp("approve_reject", 404)
       ELSE IF ~ApprovalValid(action, reason)
       THEN /\ UNCHANGED <<users, participants>>
            /\ last' = [Resp("approve_reject", 400) EXCEPT !.detail =
                            IF action \notin ActionChoices
                            THEN "action: not a valid choice"
                            ELSE "rejection_reason: required when rejecting"]
       ELSE IF participants[pid].user = None
       THEN \* participant.user.is_active raises before anything is saved
            /\ UNCHANGED <<users, participants>>
            /\ last' = Resp("approve_reject", 500)
       ELSE /\ users' = [users EXCEPT
                   ![participants[pid].user].is_active = ActiveAfter(action)]
            /\ participants' = [participants EXCEPT
                   ![pid] = ApproveRejectRow(@, actor, action, reason)]
            /\ last' = [Resp("approve_reject", 200) EXCEPT !.pid = pid, !.action = action,
                            !.before = participants[pid].status]

\* POST participants/admin/view/{pid}/approve_reject when participant.save()
\* raises a database error: participant.user.save() has already run, outside
\* any transaction.atomic() block.  atomicRequests tells whether the
\* deployment wraps each request in a transaction (the ATOMIC_REQUESTS
\* setting, off unless the settings turn it on), which then rolls back
ApproveRejectSaveFails(actor, pid, action, reason, atomicRequests) ==
    /\ IsHRAdmin(actor)
    /\ pid \in DOMAIN participants
    /\ ApprovalValid(action, reason)
    /\ participants[pid].user # None
    /\ UNCHANGED <<participants, tickets, scans, participantNullable, companies, requests>>
    /\ users' = IF atomicRequests
                THEN users
                ELSE [users EXCEPT
                         ![participants[pid].user].is_active = ActiveAfter(action)]
    /\ last' = [Resp("approve_reject", 500) EXCEPT !.pid = pid, !.action = action,
                    !.before = participants[pid].status,
                    !.detail = "participant.save() failed"]

\* request bodies of a profile update: one field of ParticipantSerializer
\* each (partial=True); text carries a string value, ref a user id (the
\* last body sets user to null)
ProfileBodies ==
    {[field |-> "linkedin_url", text |-> "x", ref |-> None],
     [field |-> "status", text |-> APPROVED, ref |-> None],
     [field |-> "status", text |-> REJECTED, ref |-> None],
     [field |-> "status", text |-> "bogus", ref |-> None],
     [field |-> "payment_status", text |-> "paid", ref |-> None],
     [field |-> "approved_by", text |-> "", ref |-> 1],
     [field |-> "approved_at", text |-> Now, ref |-> None],
     [field |-> "rejection_reason", text |-> "late", ref |-> None],
     [field |-> "user", text |-> "", ref |-> None]}

\* ParticipantSerializer(participant, data, partial=True).is_valid(): status
\* and payment_status are choice fields, approved_by a primary key, user a
\* nullable primary key that no other participant may reference; none of
\* them is in read_only_fields
ProfileValid(body) ==
    /\ body.field = "status" => body.text \in {PENDING, APPROVED, REJECTED}
    /\ body.field = "payment_status" => body.text \in {"pending", "paid", "failed"}
    /\ body.field = "approved_by" => body.ref \in DOMAIN users \cup {None}
    /\ body.field = "user" =>
          \/ body.ref = None
          \/ /\ body.ref \in DOMAIN users
             /\ \A pid \in DOMAIN participants : participants[pid].user # body.ref

\* serializer.save(): the validated field is written to the row
ProfileRow(p, body) ==
    IF body.field = "status" THEN [p EXCEPT !.status = body.text]
    ELSE IF body.field = "payment_status" THEN [p EXCEPT !.payment_status = body.text]
    ELSE IF body.field = "approved_by" THEN [p EXCEPT !.approved_by = body.ref]
    ELSE IF body.field = "approved_at" THEN [p EXCEPT !.approved_at = body.text]
    ELSE IF body.field = "rejection_reason" THEN [p EXCEPT !.rejection_reason = body.text]
    ELSE IF body.field = "user" THEN [p EXCEPT !.user = body.ref]
    ELSE p

\* PUT / PATCH participants/profile/update (IsAuthenticated, IsParticipant)
ProfileUpdate(actor, body) ==
    /\ UNCHANGED <<users, tickets, scans, participantNullable, companies, requests>>
    /\ IF ~IsAuthenticated(actor) \/ users[actor].role # PARTICIPANT
       THEN /\ UNCHANGED participants
            /\ last' = [Resp("profile_update", 403) EXCEPT !.actor = actor]
       ELSE IF \A pid \in DOMAIN participants : participants[pid].user # actor
       THEN \* request.user.participant_profile raises: AttributeError
            /\ UNCHANGED participants
            /\ last' = [Resp("profile_update", 404) EXCEPT !.actor = actor]
       ELSE IF ~ProfileValid(body)
       THEN /\ UNCHANGED participants
            /\ last' = [Resp("profile_update", 400) EXCEPT !.actor = actor]
       ELSE LET pid == CHOOSE p \in DOMAIN participants : participants[p].user = actor
            IN  /\ participants' = [participants EXCEPT
                                       ![pid] = ProfileRow(@, body)]
                /\ last' = [Resp("profile_update", 200) EXCEPT
                                !.actor = actor, !.pid = pid,
                                !.detail = body.field]

\* the participant row bulk_approve_reject saves
BulkRow(p, actor, action, reason) ==
    IF action = "approved"
    THEN [p EXCEPT !.status = APPROVED, !.approved_by = actor,
                   !.approved_at = Now, !.rejection_reason = ""]
    ELSE IF action = "rejected"
    THEN [p EXCEPT !.status = REJECTED, !.rejection_reason = reason,
                   !.approved_by = None, !.approved_at = NullTime]
    ELSE [p EXCEPT !.status = PENDING, !.approved_by = None,
                   !.approved_at = NullTime, !.rejection_reason = ""]

\* variant: the existence check reports nothing missing
MissingIds_None(ids) ==
    << >>

\* ids of the request that match no participant, in request order
MissingIds(ids) ==
    SelectSeq(ids, LAMBDA i : i \notin DOMAIN participants)

\* the rows Participant.objects.filter(id__in=participant_ids) selects
IdSet(ids) ==
    {ids[i] : i \in DOMAIN ids} \cap DOMAIN participants

\* the participant table ps after the loop of bulk_approve_reject saved the
\* rows named by ids
BulkParticipants(ps, actor, ids, action, reason) ==
    [pid \in DOMAIN ps |->
        IF \E i \in DOMAIN ids : ids[i] = pid
        THEN BulkRow(ps[pid], actor, action, reason)
        ELSE ps[pid]]

\* the user table us after the loop of bulk_approve_reject saved the users
\* linked to the rows of ps named by ids (if user: user.save(update_fields))
BulkUsers(us, ps, ids, action) ==
    [u \in DOMAIN us |->
        IF \E i \in DOMAIN ids : ids[i] \in DOMAIN ps /\ ps[ids[i]].user = u
        THEN [us[u] EXCEPT !.is_active = ActiveAfter(action)]
        ELSE us[u]]

\* POST participants/admin/view/bulk_approve_reject
BulkApproveReject(actor, ids, action, reason) ==
    /\ UNCHANGED <<tickets, scans, participantNullable, companies, requests>>
    /\ IF ~IsHRAdmin(actor)
       THEN /\ UNCHANGED <<users, participants>>
            /\ last' = [Resp("bulk_approve_reject", 403) EXCEPT !.actor = actor]
       ELSE IF ~BulkApprovalValid(ids, action, reason)
       THEN /\ UNCHANGED <<users, participants>>
            /\ last' = [Resp("bulk_approve_reject", 400) EXCEPT !.detail =
                            IF Len(ids) = 0 \/ \E i \in DOMAIN ids : ids[i] < 1
                            THEN "participant_ids: invalid"
                            ELSE IF action \notin ActionChoices
                            THEN "action: not a valid choice"
                            ELSE "rejection_reason: required when rejecting"]
       ELSE IF MissingIds(ids) # << >>
       THEN /\ UNCHANGED <<users, participants>>
            /\ last' = [Resp("bulk_approve_reject", 400) EXCEPT
                            !.req = ids, !.ids = MissingIds(ids),
                            !.detail = "Some participant IDs were not found."]
       ELSE /\ participants' = BulkParticipants(participants, actor, ids, action,
                                              ValidatedReason(reason))
            /\ users' = BulkUsers(users, participants, ids, action)
            /\ last' = [Resp("bulk_approve_reject", 200) EXCEPT
                            !.req = ids, !.action = action,
                            !.count = Cardinality(IdSet(ids))]

\* id lists a bulk request may carry (0 fails min_value, Len + 1 is unknown)
IdLists ==
    {<< >>, <<0>>} \cup
    UNION {[1..k -> 1..(Len(participants) + 1)] : k \in 1..MaxBatch}

----------------------------------------------------------------------------
(* Tickets *)

SerialsOf(tks) ==
    {tks[t].serial_number : t \in DOMAIN tks}

\* variant: the reverse lookup finds no ticket
TicketsOf_None(pid) ==
    {}

\* the ticket rows that reference participant pid
TicketsOf(pid) ==
    {t \in DOMAIN tickets : tickets[t].participant = pid}

\* the ticket row with the given serial number (serial_number is unique)
TicketBySerial(serial) ==
    CHOOSE t \in DOMAIN tickets : tickets[t].serial_number = serial

\* variant: the error names no holder
AssignedHolder_None(serial) ==
    None

\* assigned_ticket.participant.id: the holder assign_ticket reports for a
\* ticket that is already assigned
AssignedHolder(serial) ==
    tickets[TicketBySerial(serial)].participant

\* variant: every iteration's insert succeeds, whatever the serial drawn
CreateUnassigned_NoSkip(tks, draws, nullable) ==
    tks \o [i \in 1..Len(draws) |->
               [serial_number |-> draws[i], participant |-> None,
                status |-> "active"]]

\* the loop of generate_unassigned_tickets: one Ticket.objects.create(
\* participant=None, status='active') per drawn serial; a create that raises
\* (NULL refused by the column, or a serial collision) is skipped
RECURSIVE CreateUnassigned(_, _, _)
CreateUnassigned(tks, draws, nullable) ==
    IF draws = << >> THEN tks
    ELSE IF nullable /\ Head(draws) \notin SerialsOf(tks)
    THEN CreateUnassigned(
             Append(tks, [serial_number |-> Head(draws), participant |-> None,
                          status |-> "active"]),
             Tail(draws), nullable)
    ELSE CreateUnassigned(tks, Tail(draws), nullable)

\* GenerateUnassignedTicketsSerializer: count has min_value=1, max_value=200
MaxCount == 200

\* POST tickets/generate_unassigned_tickets: draws are the serial numbers
\* generate_serial_number() returns, one per iteration
GenerateUnassignedTickets(actor, draws) ==
    /\ UNCHANGED <<users, participants, scans, participantNullable, companies, requests>>
    /\ IF ~IsHRAdmin(actor)
       THEN /\ UNCHANGED tickets
            /\ last' = Resp("generate_unassigned_tickets", 403)
       ELSE IF Len(draws) < 1 \/ Len(draws) > MaxCount
       THEN /\ UNCHANGED tickets
            /\ last' = Resp("generate_unassigned_tickets", 400)
       ELSE /\ tickets' = CreateUnassigned(tickets, draws, participantNullable)
            /\ last' = [Resp("generate_unassigned_tickets", 201) EXCEPT
                            !.pid = Len(draws),
                            !.count = Len(tickets') - Len(tickets)]

\* POST tickets/assign_ticket
AssignTicket(actor, pid, serial) ==
    /\ UNCHANGED <<scans, participantNullable, companies, requests>>
    /\ IF ~IsHRAdmin(actor)
       THEN /\ UNCHANGED <<users, participants, tickets>>
            /\ last' = Resp("assign_ticket", 403)
       ELSE IF serial = ""
       THEN \* AssignTicketSerializer: ticket_serial may not be blank
            /\ UNCHANGED <<users, participants, tickets>>
            /\ last' = [Resp("assign_ticket", 400) EXCEPT
                            !.detail = "ticket_serial: may not be blank"]
       ELSE IF pid \notin DOMAIN participants
       THEN /\ UNCHANGED <<users, participants, tickets>>
            /\ last' = [Resp("assign_ticket", 404) EXCEPT
                            !.detail = "Participant not found"]
       ELSE IF TicketsOf(pid) # {}
       THEN /\ UNCHANGED <<users, participants, tickets>>
            /\ last' = [Resp("assign_ticket", 400) EXCEPT
                            !.pid = pid, !.serial = serial,
                            !.ticket = tickets[CHOOSE t \in TicketsOf(pid) : TRUE].serial_number,
                            !.detail = "Participant already has ticket",
                            !.again = Repeats("assign_ticket", pid, serial, "")]
       ELSE IF \E t \in DOMAIN tickets : /\ tickets[t].serial_number = serial
                                         /\ tickets[t].participant = None
       THEN /\ tickets' = [tickets EXCEPT ![TicketBySerial(serial)] =
                              [@ EXCEPT !.participant = pid, !.status = "active"]]
            /\ participants' = [participants EXCEPT ![pid] =
                              [@ EXCEPT !.payment_status = "paid", !.status = "approved"]]
            /\ users' = IF participants[pid].user # None
                        THEN [users EXCEPT ![participants[pid].user].is_active = TRUE]
                        ELSE users
            /\ last' = [Resp("assign_ticket", 200) EXCEPT !.pid = pid, !.serial = serial,
                            !.ticket = serial]
       ELSE IF serial \in SerialsOf(tickets)
       THEN /\ UNCHANGED <<users, participants, tickets>>
            /\ last' = [Resp("assign_ticket", 400) EXCEPT
                            !.holder = AssignedHolder(serial),
                            !.detail = "Ticket is already assigned"]
       ELSE /\ UNCHANGED <<users, participants, tickets>>
            /\ last' = [Resp("assign_ticket", 404) EXCEPT
                            !.detail = "Ticket not found"]

\* POST payments/manual: handle_payment_success(pid); draw is the serial number
\* generate_serial_number() returns if a ticket is created
ManualPayment(actor, pid, draw) ==
    /\ UNCHANGED <<scans, participantNullable, companies, requests>>
    /\ IF ~IsHRAdmin(actor)
       THEN /\ UNCHANGED <<users, participants, tickets>>
            /\ last' = Resp("manual_payment", 403)
       ELSE IF pid \notin DOMAIN participants
       THEN \* participant_id missing, or Participant.DoesNotExist
            /\ UNCHANGED <<users, participants, tickets>>
            /\ last' = [Resp("manual_payment", 400) EXCEPT
                            !.detail = "Participant not found"]
       ELSE /\ participants' = [participants EXCEPT ![pid].payment_status = "paid"]
            /\ IF TicketsOf(pid) = {} /\ draw \in SerialsOf(tickets)
               THEN \* Ticket.objects.create raises IntegrityError, caught at the end
                    /\ UNCHANGED <<users, tickets>>
                    /\ last' = [Resp("manual_payment", 400) EXCEPT !.pid = pid,
                                    !.detail = "Error processing payment"]
               ELSE /\ tickets' = IF TicketsOf(pid) = {}
                                  THEN Append(tickets, [serial_number |-> draw,
                                                        participant |-> pid,
                                                        status |-> "active"])
                                  ELSE tickets
                    /\ IF participants[pid].user # None
                       THEN /\ users' = [users EXCEPT
                                   ![participants[pid].user].is_active = TRUE]
                            /\ last' = [Resp("manual_payment", 200) EXCEPT !.pid = pid,
                                   !.ticket = tickets'[CHOOSE t \in DOMAIN tickets' :
                                       tickets'[t].participant = pid].serial_number]
                       ELSE /\ UNCHANGED users
                            /\ last' = [Resp("manual_payment", 400) EXCEPT !.pid = pid,
                                   !.detail = "Participant has no associated user account"]

\* get_object(): primary key tid names a row of the table.  A deleted row
\* leaves NoTicket at its position: its key is not given to another row
TicketExists(tid) ==
    tid \in DOMAIN tickets /\ tickets[tid] # NoTicket

\* POST tickets/{tid}/cancel_ticket
CancelTicket(actor, tid) ==
    /\ UNCHANGED <<users, participants, scans, participantNullable, companies, requests>>
    /\ IF ~IsHRAdmin(actor)
       THEN /\ UNCHANGED tickets
            /\ last' = Resp("cancel_ticket", 403)
       ELSE IF ~TicketExists(tid)
       THEN /\ UNCHANGED tickets
            /\ last' = Resp("cancel_ticket", 404)
       ELSE /\ tickets' = [tickets EXCEPT ![tid].status = "cancelled"]
            /\ last' = [Resp("cancel_ticket", 200) EXCEPT
                            !.serial = tickets[tid].serial_number]

\* variant: the scan rows of a deleted ticket are kept
CascadeScans_None(log, tid) ==
    log

\* TicketScan.ticket is a ForeignKey(on_delete=CASCADE): deleting ticket tid
\* deletes its scan rows
CascadeScans(log, tid) ==
    SelectSeq(log, LAMBDA s : s.ticket # tid)

\* DELETE tickets/{tid}/: ModelViewSet.destroy of TicketViewSet
DestroyTicket(actor, tid) ==
    /\ Cardinality({t \in DOMAIN tickets : tickets[t] = NoTicket}) < MaxDeletes
    /\ UNCHANGED <<users, participants, participantNullable, companies, requests>>
    /\ IF ~IsHRAdmin(actor)
       THEN /\ UNCHANGED <<tickets, scans>>
            /\ last' = Resp("destroy_ticket", 403)
       ELSE IF ~TicketExists(tid)
       THEN /\ UNCHANGED <<tickets, scans>>
            /\ last' = Resp("destroy_ticket", 404)
       ELSE /\ tickets' = [tickets EXCEPT ![tid] = NoTicket]
            /\ scans' = CascadeScans(scans, tid)
            /\ last' = [Resp("destroy_ticket", 204) EXCEPT
                            !.serial = tickets[tid].serial_number,
                            !.count = Len(scans) - Len(CascadeScans(scans, tid))]

\* the status TicketCheckInView.post writes for the requested action
CheckInStatus(action) ==
    IF action = "check_in" THEN "checked_in" ELSE "used"

\* POST tickets/checkin
CheckIn(actor, serial, action) ==
    /\ Len(scans) < MaxScans
    /\ UNCHANGED <<users, participants, participantNullable, companies, requests>>
    /\ IF ~IsAuthenticated(actor)
       THEN /\ UNCHANGED <<tickets, scans>>
            /\ last' = Resp("checkin", 403)
       ELSE IF serial = ""
       THEN /\ UNCHANGED <<tickets, scans>>
            /\ last' = [Resp("checkin", 400) EXCEPT
                            !.detail = "serial_number is required"]
       ELSE IF serial \notin SerialsOf(tickets)
       THEN /\ UNCHANGED <<tickets, scans>>
            /\ last' = [Resp("checkin", 404) EXCEPT
                            !.detail = "Invalid ticket number"]
       ELSE IF tickets[TicketBySerial(serial)].status = "cancelled"
       THEN /\ UNCHANGED <<tickets, scans>>
            /\ last' = [Resp("checkin", 400) EXCEPT
                            !.detail = "This ticket has been cancelled"]
       ELSE IF tickets[TicketBySerial(serial)].status = "used" /\ action = "check_in"
       THEN /\ UNCHANGED <<tickets, scans>>
            /\ last' = [Resp("checkin", 400) EXCEPT !.serial = serial, !.action = action,
                            !.detail = "This ticket has already been used",
                            !.again = Repeats("checkin", None, serial, action)]
       ELSE /\ tickets' = [tickets EXCEPT
                   ![TicketBySerial(serial)].status = CheckInStatus(action)]
            /\ scans' = Append(scans, [ticket |-> TicketBySerial(serial),
                                       scanned_by |-> actor,
                                       scan_result |-> "valid"])
            /\ last' = [Resp("checkin",
                             \* the response reads ticket.participant.full_name
                             IF tickets[TicketBySerial(serial)].participant = None
                             THEN 500 ELSE 200)
                        EXCEPT !.serial = serial, !.action = action,
                               !.before = tickets[TicketBySerial(serial)].status,
                               !.again = Repeats("checkin", None, serial, action),
                               !.detail = IF action = "check_in"
                                          THEN "Successfully checked in"
                                          ELSE "Successfully checked out"]

----------------------------------------------------------------------------
(* assign_ticket and handle_payment_success, one database statement per   *)
(* step, run by concurrent threads.  Model.save() writes every column of  *)
(* the row from the object the thread holds.                              *)

\* variant: a plain foreign key, no unique constraint
ParticipantTaken_NotUnique(tks, tid, pid) ==
    FALSE

\* Ticket.participant is a OneToOneField: the unique constraint refuses a
\* write that makes ticket tid the second ticket of participant pid
ParticipantTaken(tks, tid, pid) ==
    \E t \in DOMAIN tks : t # tid /\ tks[t].participant = pid

Finish(w, resp) ==
    /\ requests' = [requests EXCEPT ![w] = Idle]
    /\ last' = resp

Goto(w, pc) ==
    /\ requests' = [requests EXCEPT ![w].pc = pc]
    /\ UNCHANGED last

\* participant = Participant.objects.get(id=participant_id)
AssignLoad(w, pid, serial) ==
    /\ requests[w].pc = "idle"
    /\ UNCHANGED <<users, participants, tickets, scans, participantNullable, companies>>
    /\ IF pid \notin DOMAIN participants
       THEN Finish(w, [Resp("assign_ticket", 404) EXCEPT
                           !.detail = "Participant not found"])
       ELSE /\ requests' = [requests EXCEPT ![w] =
                   [Idle EXCEPT !.pc = "assign_existing", !.pid = pid,
                                !.serial = serial, !.p = participants[pid]]]
            /\ UNCHANGED last

\* existing_ticket = Ticket.objects.filter(participant=participant).first()
AssignExisting(w) ==
    /\ requests[w].pc = "assign_existing"
    /\ UNCHANGED <<users, participants, tickets, scans, participantNullable, companies>>
    /\ IF TicketsOf(requests[w].pid) # {}
       THEN Finish(w, [Resp("assign_ticket", 400) EXCEPT
                           !.pid = requests[w].pid, !.serial = requests[w].serial,
                           !.ticket = tickets[CHOOSE t \in TicketsOf(requests[w].pid) :
                                                  TRUE].serial_number,
                           !.detail = "Participant already has ticket"])
       ELSE Goto(w, "assign_get")

\* ticket = Ticket.objects.get(serial_number=..., participant__isnull=True)
AssignGetTicket(w) ==
    /\ requests[w].pc = "assign_get"
    /\ UNCHANGED <<users, participants, tickets, scans, participantNullable, companies>>
    /\ IF \E t \in DOMAIN tickets : /\ tickets[t].serial_number = requests[w].serial
                                    /\ tickets[t].participant = None
       THEN /\ requests' = [requests EXCEPT
                   ![w].pc = "assign_save_ticket",
                   ![w].tid = TicketBySerial(requests[w].serial),
                   ![w].tk = tickets[TicketBySerial(requests[w].serial)]]
            /\ UNCHANGED last
       ELSE IF requests[w].serial \in SerialsOf(tickets)
       THEN Finish(w, [Resp("assign_ticket", 400) EXCEPT
                           !.holder = AssignedHolder(requests[w].serial),
                           !.detail = "Ticket is already assigned"])
       ELSE Finish(w, [Resp("assign_ticket", 404) EXCEPT
                           !.detail = "Ticket not found"])

\* ticket.participant = participant; ticket.status = 'active'; ticket.save()
AssignSaveTicket(w) ==
    /\ requests[w].pc = "assign_save_ticket"
    /\ UNCHANGED <<users, participants, scans, participantNullable, companies>>
    /\ IF ParticipantTaken(tickets, requests[w].tid, requests[w].pid)
       THEN \* IntegrityError, caught by except Exception
            /\ UNCHANGED tickets
            /\ Finish(w, [Resp("assign_ticket", 500) EXCEPT
                              !.pid = requests[w].pid, !.serial = requests[w].serial,
                              !.detail = "IntegrityError"])
       ELSE /\ tickets' = [tickets EXCEPT ![requests[w].tid] =
                   [requests[w].tk EXCEPT !.participant = requests[w].pid,
                                          !.status = "active"]]
            /\ Goto(w, "assign_save_participant")

\* participant.payment_status = "paid"; participant.status = "approved";
\* participant.save()
AssignSaveParticipant(w) ==
    /\ requests[w].pc = "assign_save_participant"
    /\ UNCHANGED <<users, tickets, scans, participantNullable, companies>>
    /\ participants' = [participants EXCEPT ![requests[w].pid] =
           [requests[w].p EXCEPT !.payment_status = "paid", !.status = "approved"]]
    /\ Goto(w, "assign_user")

\* if participant.user and not participant.user.is_active: activate, save
AssignActivateUser(w) ==
    /\ requests[w].pc = "assign_user"
    /\ UNCHANGED <<participants, tickets, scans, participantNullable, companies>>
    /\ users' = IF requests[w].p.user # None
                THEN [users EXCEPT ![requests[w].p.user].is_active = TRUE]
                ELSE users
    /\ Finish(w, [Resp("assign_ticket", 200) EXCEPT
                      !.pid = requests[w].pid, !.serial = requests[w].serial,
                      !.ticket = requests[w].serial])

\* participant = Participant.objects.get(id=participant_id)
PaymentLoad(w, pid) ==
    /\ requests[w].pc = "idle"
    /\ UNCHANGED <<users, participants, tickets, scans, participantNullable, companies>>
    /\ IF pid \notin DOMAIN participants
       THEN Finish(w, [Resp("manual_payment", 400) EXCEPT
                           !.detail = "Participant not found"])
       ELSE /\ requests' = [requests EXCEPT ![w] =
                   [Idle EXCEPT !.pc = "payment_save_participant", !.pid = pid,
                                !.p = participants[pid]]]
            /\ UNCHANGED last

\* participant.payment_status = "paid"; participant.save()
PaymentSaveParticipant(w) ==
    /\ requests[w].pc = "payment_save_participant"
    /\ UNCHANGED <<users, tickets, scans, participantNullable, companies>>
    /\ participants' = [participants EXCEPT ![requests[w].pid] =
           [requests[w].p EXCEPT !.payment_status = "paid"]]
    /\ Goto(w, "payment_has_ticket")

\* hasattr(participant, 'ticket')
PaymentHasTicket(w) ==
    /\ requests[w].pc = "payment_has_ticket"
    /\ UNCHANGED <<users, participants, tickets, scans, participantNullable, companies>>
    /\ IF TicketsOf(requests[w].pid) # {}
       THEN Goto(w, "payment_user")
       ELSE Goto(w, "payment_create_ticket")

\* Ticket.objects.create(participant=participant), with the drawn serial
PaymentCreateTicket(w, draw) ==
    /\ requests[w].pc = "payment_create_ticket"
    /\ UNCHANGED <<users, participants, scans, participantNullable, companies>>
    /\ IF draw \in SerialsOf(tickets)
          \/ ParticipantTaken(tickets, None, requests[w].pid)
       THEN \* IntegrityError, caught by except Exception
            /\ UNCHANGED tickets
            /\ Finish(w, [Resp("manual_payment", 400) EXCEPT
                              !.pid = requests[w].pid,
                              !.detail = "IntegrityError"])
       ELSE /\ tickets' = Append(tickets, [serial_number |-> draw,
                                           participant |-> requests[w].pid,
                                           status |-> "active"])
            /\ Goto(w, "payment_user")

\* if participant.user: activate if inactive, send the e-mail; else fail
PaymentActivateUser(w) ==
    /\ requests[w].pc = "payment_user"
    /\ UNCHANGED <<participants, tickets, scans, participantNullable, companies>>
    /\ IF requests[w].p.user # None
       THEN /\ users' = [users EXCEPT ![requests[w].p.user].is_active = TRUE]
            /\ Finish(w, [Resp("manual_payment", 200) EXCEPT !.pid = requests[w].pid])
       ELSE /\ UNCHANGED users
            /\ Finish(w, [Resp("manual_payment", 400) EXCEPT
                   !.detail = "Participant has no associated user account"])

\* the serial draws of one generate_unassigned_tickets request
DrawLists ==
    UNION {[1..k -> Serials] : k \in 0..MaxBatch}

----------------------------------------------------------------------------
(* Requests *)

\* action / rejection_reason pairs a request body may carry: the reason is
\* read only by the rejected branch
ApprovalBodies ==
    {<<"rejected", r>> : r \in ReasonInputs} \cup
    {<<"approved", Absent>>, <<"approved", "late">>, <<"pending", Absent>>,
     <<"approve", Absent>>}

\* the bodies tried for an actor: a request the permission class denies is
\* answered before its body is read, so one body stands for all
BodiesFor(actor, bodies, denied) ==
    IF IsHRAdmin(actor) THEN bodies ELSE {denied}

RegisterStep ==
    \E e \in Emails, fault \in BOOLEAN : Register(e, fault)

\* a registration that meets no database fault, by the first e-mail address
RegisterPlainStep ==
    Register("a@x.com", FALSE)

ManualRegisterStep ==
    \E a \in Actors :
        \E e \in BodiesFor(a, Emails, "a@x.com"), fault \in BodiesFor(a, BOOLEAN, FALSE) :
            ManualRegister(a, e, fault)

ApproveRejectStep ==
    \E a \in Actors :
        \E pid \in BodiesFor(a, 1..(Len(participants) + 1), 1),
           body \in BodiesFor(a, ApprovalBodies, <<"approved", Absent>>) :
            ApproveReject(a, pid, body[1], body[2])

BulkApproveRejectStep ==
    \E a \in Actors :
        \E ids \in BodiesFor(a, IdLists, <<1>>),
           body \in BodiesFor(a, ApprovalBodies, <<"approved", Absent>>) :
            BulkApproveReject(a, ids, body[1], body[2])

GenerateUnassignedTicketsStep ==
    \E a \in Actors :
        \E draws \in BodiesFor(a, DrawLists, <<"GT2025AA">>) :
            GenerateUnassignedTickets(a, draws)

AssignTicketStep ==
    \E a \in Actors :
        \E pid \in BodiesFor(a, 1..(Len(participants) + 1), 1),
           serial \in BodiesFor(a, SerialInputs, "GT2025AA") :
            AssignTicket(a, pid, serial)

ManualPaymentStep ==
    \E a \in Actors :
        \E pid \in BodiesFor(a, 0..(Len(participants) + 1), 1),
           draw \in BodiesFor(a, Serials, "GT2025AA") :
            ManualPayment(a, pid, draw)

CancelTicketStep ==
    \E a \in Actors :
        \E tid \in BodiesFor(a, 1..(Len(tickets) + 1), 1) : CancelTicket(a, tid)

CheckInStep ==
    \E a \in Actors :
        \E serial \in IF IsAuthenticated(a) THEN SerialInputs ELSE {"GT2025AA"},
           action \in IF IsAuthenticated(a) THEN {"check_in", "check_out"}
                                            ELSE {"check_in"} :
            CheckIn(a, serial, action)

----------------------------------------------------------------------------
(* Specifications *)

\* the participant lifecycle: registration, status transitions, assignment
Next ==
    \/ RegisterStep
    \/ ManualRegisterStep
    \/ ApproveRejectStep
    \/ BulkApproveRejectStep
    \/ GenerateUnassignedTicketsStep
    \/ AssignTicketStep

Spec == Init /\ [][Next]_vars

\* single status transitions
NextApproval ==
    \/ RegisterStep
    \/ ManualRegisterStep
    \/ ApproveRejectStep

SpecApproval == Init /\ [][NextApproval]_vars

ApproveRejectSaveFailsStep ==
    \E a \in Actors, pid \in DOMAIN participants, body \in ApprovalBodies,
       atomicRequests \in BOOLEAN :
        ApproveRejectSaveFails(a, pid, body[1], body[2], atomicRequests)

\* single status transitions, some of which meet a database error
NextApprovalFault ==
    \/ RegisterPlainStep
    \/ ApproveRejectStep
    \/ ApproveRejectSaveFailsStep

SpecApprovalFault == Init /\ [][NextApprovalFault]_vars

\* bulk status transitions
NextBulk ==
    \/ RegisterStep
    \/ ManualRegisterStep
    \/ BulkApproveRejectStep

SpecBulk == Init /\ [][NextBulk]_vars

\* ticket issuance and assignment
NextAssign ==
    \/ RegisterPlainStep
    \/ GenerateUnassignedTicketsStep
    \/ AssignTicketStep
    \/ ManualPaymentStep

SpecAssign == Init /\ [][NextAssign]_vars

\* ticket issuance, cancellation and check-in
NextCheckIn ==
    \/ RegisterPlainStep
    \/ GenerateUnassignedTicketsStep
    \/ ManualPaymentStep
    \/ CancelTicketStep
    \/ CheckInStep

SpecCheckIn == Init /\ [][NextCheckIn]_vars

\* a registration while no other request is in flight
RegisterQuietStep ==
    /\ \A w \in Threads : requests[w].pc = "idle"
    /\ \E e \in {"a@x.com", "b@x.com"} : Register(e, FALSE)

\* a ticket generation by the HR admin while no other request is in flight
GenerateQuietStep ==
    /\ \A w \in Threads : requests[w].pc = "idle"
    /\ \E draws \in DrawLists : GenerateUnassignedTickets(1, draws)

\* ticket assignment among two participants
NextAssignTwo ==
    \/ RegisterQuietStep
    \/ GenerateUnassignedTicketsStep
    \/ AssignTicketStep

SpecAssignTwo == Init /\ [][NextAssignTwo]_vars

\* the ticket operations: issue, assignment, cancellation and check-in
NextTicketApi ==
    \/ RegisterPlainStep
    \/ GenerateUnassignedTicketsStep
    \/ AssignTicketStep
    \/ CancelTicketStep
    \/ CheckInStep

SpecTicketApi == Init /\ [][NextTicketApi]_vars

\* status transitions requested by HR, company and participant accounts
NextRoles ==
    \/ RegisterPlainStep
    \/ ApproveRejectStep
    \/ BulkApproveRejectStep

SpecRoles == InitRoles /\ [][NextRoles]_vars

\* objects exposing a user reference: participant profiles, company profiles
\* and rows without owner
ObjectAccessStep ==
    \E a \in Actors \ {Anonymous}, owner \in DOMAIN users \cup {None} :
        ObjectAccess(a, owner)

\* object-level access by HR, company and participant accounts
NextAccess ==
    \/ RegisterPlainStep
    \/ ApproveRejectStep
    \/ ObjectAccessStep

SpecAccess == InitRoles /\ [][NextAccess]_vars

ProfileUpdateStep ==
    \E a \in Actors, body \in ProfileBodies : ProfileUpdate(a, body)

\* a participant's own profile updates between status transitions
NextProfile ==
    \/ RegisterPlainStep
    \/ ApproveRejectStep
    \/ ProfileUpdateStep

SpecProfile == Init /\ [][NextProfile]_vars

DestroyTicketStep ==
    \E a \in Actors :
        \E tid \in BodiesFor(a, 1..(Len(tickets) + 1), 1) : DestroyTicket(a, tid)

\* the ticket operations with the HR viewset's DELETE
NextTicketCrud ==
    \/ RegisterPlainStep
    \/ GenerateUnassignedTicketsStep
    \/ ManualPaymentStep
    \/ CancelTicketStep
    \/ CheckInStep
    \/ DestroyTicketStep

SpecTicketCrud == Init /\ [][NextTicketCrud]_vars

\* concurrent assign_ticket and handle_payment_success requests
NextConc ==
    \/ RegisterQuietStep
    \/ GenerateQuietStep
    \/ \E w \in Threads, pid \in 1..(Len(participants) + 1), serial \in Serials :
          AssignLoad(w, pid, serial)
    \/ \E w \in Threads : AssignExisting(w)
    \/ \E w \in Threads : AssignGetTicket(w)
    \/ \E w \in Threads : AssignSaveTicket(w)
    \/ \E w \in Threads : AssignSaveParticipant(w)
    \/ \E w \in Threads : AssignActivateUser(w)
    \/ \E w \in Threads, pid \in 1..(Len(participants) + 1) : PaymentLoad(w, pid)
    \/ \E w \in Threads : PaymentSaveParticipant(w)
    \/ \E w \in Threads : PaymentHasTicket(w)
    \/ \E w \in Threads, draw \in Serials : PaymentCreateTicket(w, draw)
    \/ \E w \in Threads : PaymentActivateUser(w)

SpecConc == Init /\ [][NextConc]_vars

----------------------------------------------------------------------------
(* Properties *)

\* C1: every participant has status REJECTED if and only if its
\* rejection_reason is not empty.
C1_RejectedIffReason ==
    \A pid \in DOMAIN participants :
        (participants[pid].status = REJECTED)
            <=> (participants[pid].rejection_reason # "")

\* C2: every participant has status APPROVED if and only if both approved_by
\* and approved_at are set.
C2_ApprovedIffApprover ==
    \A pid \in DOMAIN participants :
        (participants[pid].status = APPROVED)
            <=> (/\ participants[pid].approved_by # None
                 /\ participants[pid].approved_at # NullTime)

\* C4: assign_ticket by an HR admin for a participant and the serial of the
\* ticket that participant already holds answers with that ticket's serial
\* as the existing binding and changes no ticket, participant or user row.
C4_AssignTicketIdempotent ==
    [][\A a \in Actors, pid \in DOMAIN participants, serial \in Serials :
          (/\ IsHRAdmin(a)
           /\ \E t \in DOMAIN tickets : /\ tickets[t].serial_number = serial
                                        /\ tickets[t].participant = pid
           /\ AssignTicket(a, pid, serial))
          => (/\ last'.code = 400
              /\ last'.ticket = serial
              /\ UNCHANGED <<users, participants, tickets, scans>>)]_vars

\* C4 witness: the second of two assign_ticket calls with the same
\* participant and serial, the first of which bound the ticket.
C4_Witness ==
    /\ last.op = "assign_ticket"
    /\ last.again
    /\ last.ticket = last.serial
    /\ \E t \in DOMAIN tickets : /\ tickets[t].serial_number = last.serial
                                 /\ tickets[t].participant = last.pid

\* the scan_result a check-in call is to log: the outcome of the call
ScanOutcome(serial, action) ==
    IF \A t \in DOMAIN tickets : tickets[t].serial_number # serial
    THEN "invalid"
    ELSE LET tk == tickets[CHOOSE t \in DOMAIN tickets :
                               tickets[t].serial_number = serial]
         IN  IF tk.status = "cancelled" THEN "cancelled"
             ELSE IF tk.status = "used" /\ action = "check_in" THEN "already_used"
             ELSE "valid"

\* C5: every check-in call of an authenticated user that names a serial
\* number appends exactly one TicketScan row, and the row's scan_result is
\* the outcome of the call (valid, invalid, already_used or cancelled).
C5_EveryCheckInLogsOneScan ==
    [][\A a \in Actors, serial \in SerialInputs \ {""},
          action \in {"check_in", "check_out"} :
          (IsAuthenticated(a) /\ CheckIn(a, serial, action))
          => (/\ Len(scans') = Len(scans) + 1
              /\ SubSeq(scans', 1, Len(scans)) = scans
              /\ scans'[Len(scans')].scan_result = ScanOutcome(serial, action))]_vars

\* the TicketScan rows of the ticket with the given serial number
ScansOfSerial(log, serial) ==
    {i \in DOMAIN log : tickets[log[i].ticket].serial_number = serial}

\* C6: after a first check_in call took a ticket from active to checked_in,
\* a second check_in call for the same ticket fails with the "already used"
\* conflict, leaves the ticket unchanged, and the ticket then has exactly two
\* TicketScan rows.
C6_SecondCheckInRejected ==
    [][\A a \in Actors, serial \in Serials :
          (/\ IsAuthenticated(a)
           /\ last.op = "checkin" /\ last.code = 200
           /\ last.serial = serial /\ last.action = "check_in"
           /\ last.before = "active"
           /\ CheckIn(a, serial, "check_in"))
          => (/\ tickets[TicketBySerial(serial)].status = "checked_in"
              /\ last'.code = 400
              /\ last'.detail = "This ticket has already been used"
              /\ tickets' = tickets
              /\ Cardinality(ScansOfSerial(scans', serial)) = 2)]_vars

\* C7: a single approve_reject by an HR admin with the rejected action and a
\* missing or empty rejection_reason is answered 400 and changes neither the
\* participant row nor the linked user's active flag.
C7_RejectWithoutReasonRefused ==
    [][\A a \in Actors, pid \in DOMAIN participants, reason \in {Absent, ""} :
          (IsHRAdmin(a) /\ ApproveReject(a, pid, "rejected", reason))
          => (/\ last'.code = 400
              /\ participants' = participants
              /\ users' = users)]_vars

\* C7 witness: a reject without reason was refused for an existing participant.
C7_Witness ==
    /\ last.op = "approve_reject"
    /\ last.code = 400
    /\ last.detail = "rejection_reason: required when rejecting"
    /\ participants # << >>

\* the status an action asks for
TargetStatus(action) ==
    IF action = "approved" THEN APPROVED
    ELSE IF action = "rejected" THEN REJECTED ELSE PENDING

\* C8: a valid bulk_approve_reject by an HR admin is all or nothing.  If some
\* requested id matches no participant, the answer is 400 with missing_ids
\* the requested ids that match none, and no participant or user row changes;
\* otherwise every requested participant gets the requested status and its
\* user the matching active flag, and no other participant changes.
C8_BulkAllOrNothing ==
    [][\A a \in Actors, ids \in IdLists, action \in ActionChoices,
          reason \in {"late"} :
          (/\ IsHRAdmin(a)
           /\ ids # << >>
           /\ \A i \in DOMAIN ids : ids[i] >= 1
           /\ BulkApproveReject(a, ids, action, reason))
          => IF \E i \in DOMAIN ids : ids[i] > Len(participants)
             THEN /\ last'.code = 400
                  /\ last'.ids = SelectSeq(ids, LAMBDA i : i > Len(participants))
                  /\ participants' = participants
                  /\ users' = users
             ELSE /\ last'.code = 200
                  /\ DOMAIN participants' = DOMAIN participants
                  /\ \A pid \in DOMAIN participants :
                        IF \E i \in DOMAIN ids : ids[i] = pid
                        THEN /\ participants'[pid].status = TargetStatus(action)
                             /\ users'[participants[pid].user].is_active
                                    = (action # "rejected")
                        ELSE participants'[pid] = participants[pid]]_vars

\* C8 witness: a bulk request naming an existing and a missing participant
\* was refused.
C8_Witness ==
    /\ last.op = "bulk_approve_reject"
    /\ last.code = 400
    /\ last.ids # << >>
    /\ \E i \in DOMAIN last.req : last.req[i] \in DOMAIN participants

\* C9: a single approve_reject by an HR admin with the approved action leaves
\* the participant APPROVED, approved_by the actor, approved_at set, the
\* rejection_reason empty and the linked user active, whatever the
\* participant's status was.
C9_ApproveSetsApprovedState ==
    [][\A a \in Actors, pid \in DOMAIN participants, reason \in ReasonInputs :
          (IsHRAdmin(a) /\ ApproveReject(a, pid, "approved", reason))
          => (/\ last'.code = 200
              /\ participants'[pid].status = APPROVED
              /\ participants'[pid].approved_by = a
              /\ participants'[pid].approved_at # NullTime
              /\ participants'[pid].rejection_reason = ""
              /\ users'[participants[pid].user].is_active)]_vars

\* C9 witness: a rejected participant was approved.
C9_Witness ==
    /\ last.op = "approve_reject"
    /\ last.code = 200
    /\ last.action = "approved"
    /\ last.before = REJECTED
    /\ participants[last.pid].status = APPROVED

\* C10: a public registration answered 201 adds exactly one user and one
\* participant, the participant linked to the new user and to it alone, with
\* status PENDING, payment_status pending and the user inactive; any other
\* answer adds no user and no participant.
C10_RegistrationCreatesPair ==
    [][\A e \in Emails, fault \in BOOLEAN :
          Register(e, fault)
          => IF last'.code = 201
             THEN /\ Len(users') = Len(users) + 1
                  /\ Len(participants') = Len(participants) + 1
                  /\ SubSeq(users', 1, Len(users)) = users
                  /\ SubSeq(participants', 1, Len(participants)) = participants
                  /\ participants'[Len(participants')].user = Len(users')
                  /\ \A pid \in DOMAIN participants :
                        participants'[pid].user # Len(users')
                  /\ participants'[Len(participants')].status = PENDING
                  /\ participants'[Len(participants')].payment_status = "pending"
                  /\ users'[Len(users')].is_active = FALSE
                  /\ ~fault
             ELSE /\ users' = users
                  /\ participants' = participants]_vars

\* C10 witness: a registration succeeded.
C10_Witness ==
    /\ last.op = "register"
    /\ last.code = 201
    /\ participants[last.pid].status = PENDING

\* C3: under every interleaving of assign_ticket and handle_payment_success
\* requests, at most one ticket references any participant.
C3_OneTicketPerParticipant ==
    \A pid \in DOMAIN participants : Cardinality(TicketsOf(pid)) <= 1

\* C3 witness: of two concurrent assign_ticket calls for one participant with
\* different serials, one bound its ticket and the other's save was refused.
C3_Witness ==
    /\ last.op = "assign_ticket"
    /\ last.code = 500
    /\ last.detail = "IntegrityError"
    /\ \E t \in TicketsOf(last.pid) : tickets[t].serial_number # last.serial

\* the ticket rows a step added
NewTickets ==
    (DOMAIN tickets') \ (DOMAIN tickets)

\* the serial numbers of the table tks are pairwise distinct
SerialsDistinct(tks) ==
    \A s, t \in DOMAIN tks : s # t => tks[s].serial_number # tks[t].serial_number

\* C11 as stated: a valid generate_unassigned_tickets(count) by an HR admin
\* creates count tickets, unassigned and active, with serial numbers that are
\* pairwise distinct and new, and reports count.
C11_GenerateCreatesCount ==
    [][\A a \in Actors, draws \in DrawLists :
          (/\ IsHRAdmin(a)
           /\ Len(draws) >= 1
           /\ GenerateUnassignedTickets(a, draws))
          => (/\ Len(tickets') = Len(tickets) + Len(draws)
              /\ \A t \in NewTickets : /\ tickets'[t].participant = None
                                       /\ tickets'[t].status = "active"
              /\ SerialsDistinct(tickets')
              /\ last'.count = Len(draws))]_vars

\* C11 as amended: a valid generate_unassigned_tickets(count) by an HR admin
\* is answered 201, keeps the existing tickets, creates at most count
\* tickets, one per insert that succeeds, each unassigned and active with a
\* serial number distinct from every other ticket's, and reports the number
\* of tickets it created; it creates count tickets when the column accepts
\* NULL and the drawn serials are pairwise distinct and new.
C11_GenerateBestEffort ==
    [][\A a \in Actors, draws \in DrawLists :
          (/\ IsHRAdmin(a)
           /\ Len(draws) >= 1
           /\ GenerateUnassignedTickets(a, draws))
          => (/\ last'.code = 201
              /\ Len(tickets') <= Len(tickets) + Len(draws)
              /\ SubSeq(tickets', 1, Len(tickets)) = tickets
              /\ \A t \in NewTickets : /\ tickets'[t].participant = None
                                       /\ tickets'[t].status = "active"
              /\ SerialsDistinct(tickets')
              /\ last'.count = Cardinality(NewTickets)
              /\ (/\ participantNullable
                  /\ \A i, j \in DOMAIN draws : i # j => draws[i] # draws[j]
                  /\ \A i \in DOMAIN draws : draws[i] \notin SerialsOf(tickets))
                 => Len(tickets') = Len(tickets) + Len(draws))]_vars

\* C11 witness: a request for two tickets created one, the other insert was
\* skipped.
C11_Witness ==
    /\ last.op = "generate_unassigned_tickets"
    /\ last.code = 201
    /\ last.pid = 2
    /\ last.count = 1
    /\ \E t \in DOMAIN tickets : tickets[t].participant = None

\* C12: a single approve_reject by an HR admin either persists both the
\* participant's transition and the linked user's active flag (answer 200)
\* or persists neither, also when participant.save() fails after the user
\* was saved.
C12_ApproveRejectAtomic ==
    [][\A a \in Actors, pid \in DOMAIN participants, body \in ApprovalBodies,
          atomicRequests \in BOOLEAN :
          (/\ IsHRAdmin(a)
           /\ \/ ApproveReject(a, pid, body[1], body[2])
              \/ ApproveRejectSaveFails(a, pid, body[1], body[2], atomicRequests))
          => \/ /\ last'.code = 200
                /\ participants'[pid].status = TargetStatus(body[1])
                /\ users'[participants[pid].user].is_active = ActiveAfter(body[1])
             \/ /\ last'.code # 200
                /\ participants' = participants
                /\ users' = users]_vars

\* C13: an assign_ticket call answered 200 leaves the ticket bound to the
\* participant and active, the participant paid and with the APPROVED status
\* value the approve transition writes, and the linked user active.
C13_AssignTicketSuccessState ==
    [][\A a \in Actors, pid \in DOMAIN participants, serial \in Serials :
          (AssignTicket(a, pid, serial) /\ last'.code = 200)
          => (/\ tickets'[TicketBySerial(serial)].participant = pid
              /\ tickets'[TicketBySerial(serial)].status = "active"
              /\ participants'[pid].payment_status = "paid"
              /\ participants'[pid].status = APPROVED
              /\ participants'[pid].status =
                     ApproveRejectRow(participants[pid], a, "approved", Absent).status
              /\ participants[pid].user # None
                     => users'[participants[pid].user].is_active)]_vars

\* C14: an assign_ticket call by an HR admin that is not answered 200
\* (participant not found, participant already holds a ticket, ticket
\* already assigned, ticket not found) changes no ticket, participant or
\* user; when the participant holds no ticket and the named ticket is
\* assigned to another participant, the 400 answer names that holder.
C14_FailedAssignChangesNothing ==
    [][\A a \in Actors, pid \in 1..(Len(participants) + 1),
          serial \in SerialInputs \ {""} :
          (/\ IsHRAdmin(a)
           /\ AssignTicket(a, pid, serial)
           /\ last'.code # 200)
          => (/\ UNCHANGED <<users, participants, tickets>>
              /\ last'.code \in {400, 404}
              /\ \A t \in DOMAIN tickets :
                    (/\ tickets[t].serial_number = serial
                     /\ tickets[t].participant # None
                     /\ pid \in DOMAIN participants
                     /\ \A u \in DOMAIN tickets : tickets[u].participant # pid)
                    => (/\ last'.code = 400
                        /\ last'.holder = tickets[t].participant))]_vars

\* C14 witness: an assign_ticket call for a participant without a ticket
\* named a ticket that another participant holds and was refused.
C14_Witness ==
    /\ last.op = "assign_ticket"
    /\ last.code = 400
    /\ last.detail = "Ticket is already assigned"
    /\ last.holder \in DOMAIN participants
    /\ \E pid \in DOMAIN participants :
          /\ pid # last.holder
          /\ \A t \in DOMAIN tickets : tickets[t].participant # pid

\* C15: cancelled is terminal.  A check-in call (check_in or check_out) by
\* an authenticated user for a cancelled ticket is refused with the
\* "cancelled" conflict, and no step of check-in, cancel_ticket or
\* assign_ticket takes a cancelled ticket to another status.
C15_CancelledIsTerminal ==
    [][\A t \in DOMAIN tickets :
          tickets[t].status = "cancelled"
          => (/\ tickets'[t].status = "cancelled"
              /\ \A a \in Actors, action \in {"check_in", "check_out"} :
                    (/\ IsAuthenticated(a)
                     /\ CheckIn(a, tickets[t].serial_number, action))
                    => (/\ last'.code = 400
                        /\ last'.detail = "This ticket has been cancelled"))]_vars

\* the status transitions a successful check-in call may make, by mode
CheckInTransitions ==
    {<<"check_in", "active", "checked_in">>,
     <<"check_out", "checked_in", "used">>,
     <<"check_out", "active", "used">>}

\* C16: every check-in call answered 200 takes the ticket along one of
\* active -> checked_in (check_in), checked_in -> used (check_out) or
\* active -> used (check_out).
C16_CheckInTransitions ==
    [][\A a \in Actors, serial \in Serials, action \in {"check_in", "check_out"} :
          (/\ IsAuthenticated(a)
           /\ serial \in SerialsOf(tickets)
           /\ CheckIn(a, serial, action)
           /\ last'.code = 200)
          => <<action, tickets[TicketBySerial(serial)].status,
               tickets'[TicketBySerial(serial)].status>> \in CheckInTransitions]_vars

\* C17: an approve_reject or bulk_approve_reject request of an actor that
\* is unauthenticated or whose role is not HR_ADMIN (PARTICIPANT, COMPANY)
\* is denied and changes no participant and no user.
C17_TransitionsNeedHRAdmin ==
    [][\A a \in Actors :
          (a = Anonymous \/ users[a].role # HR_ADMIN)
          => \A body \in ApprovalBodies :
                (\/ \E pid \in 0..(Len(participants) + 1) :
                        ApproveReject(a, pid, body[1], body[2])
                 \/ \E ids \in IdLists :
                        BulkApproveReject(a, ids, body[1], body[2]))
                => (/\ last'.code = 403
                    /\ UNCHANGED <<users, participants>>)]_vars

\* C17 witness: an approved participant, whose account is active, asked for
\* a status transition and was denied.
C17_Witness ==
    /\ last.op \in {"approve_reject", "bulk_approve_reject"}
    /\ last.code = 403
    /\ last.actor # Anonymous
    /\ users[last.actor].role = PARTICIPANT
    /\ \E u \in DOMAIN users : users[u].role = COMPANY /\ users[u].is_active

\* C18 as stated: for a requester of any role and an object with an owner
\* reference, the object-level check grants access if and only if the
\* requester is an HR admin or is the owner.
C18_OwnerOrHRAdmin ==
    [][\A a \in Actors \ {Anonymous}, owner \in DOMAIN users \cup {None} :
          ObjectAccess(a, owner)
          => ((last'.code = 200)
                 <=> (users[a].role = HR_ADMIN \/ owner = a))]_vars

\* C18 as amended: the object-level check grants access if and only if the
\* requester is an HR admin, or is a PARTICIPANT and is the owner; a COMPANY
\* requester is denied, also for an object it owns.
C18_ParticipantOwnerOrHRAdmin ==
    [][\A a \in Actors \ {Anonymous}, owner \in DOMAIN users \cup {None} :
          ObjectAccess(a, owner)
          => ((last'.code = 200)
                 <=> (\/ users[a].role = HR_ADMIN
                      \/ users[a].role = PARTICIPANT /\ owner = a))]_vars

\* C18 witness: a company account was denied access to an object it owns,
\* while a participant account exists that may access its own.
C18_Witness ==
    /\ last.op = "object_access"
    /\ last.code = 403
    /\ last.actor # Anonymous
    /\ users[last.actor].role = COMPANY
    /\ last.holder = last.actor
    /\ \E u \in DOMAIN users : users[u].role = PARTICIPANT /\ users[u].is_active

\* the five fields of a participant row that record its status transitions
StatusFields(p) ==
    <<p.status, p.payment_status, p.approved_by, p.approved_at, p.rejection_reason>>

\* C19: a step that changes the status, payment_status, approved_by,
\* approved_at or rejection_reason of a participant is a status transition
\* (single or bulk approve_reject, assign_ticket, payment confirmation); a
\* profile update changes none of the five.
C19_OnlyTransitionsChangeStatus ==
    [][\A pid \in DOMAIN participants :
          StatusFields(participants'[pid]) # StatusFields(participants[pid])
          => last'.op \in {"approve_reject", "bulk_approve_reject",
                           "assign_ticket", "manual_payment"}]_vars

\* every scan row stays, unchanged and in place, and every ticket stays
ScansAndTicketsKept ==
    /\ Len(scans') >= Len(scans)
    /\ SubSeq(scans', 1, Len(scans)) = scans
    /\ \A t \in DOMAIN tickets :
          tickets[t] # NoTicket => (t \in DOMAIN tickets' /\ tickets'[t] # NoTicket)

C21_PendingResetsDecision ==
    [][\A a \in Actors, pid \in DOMAIN participants, reason \in ReasonInputs :
          (IsHRAdmin(a) /\ ApproveReject(a, pid, "pending", reason))
          => (/\ last'.code = 200
              /\ participants'[pid].status = PENDING
              /\ participants'[pid].approved_by = None
              /\ participants'[pid].approved_at = NullTime
              /\ participants'[pid].rejection_reason = ""
              /\ users'[participants[pid].user].is_active)]_vars

\* single and bulk status transitions over participants with and without a
\* linked user: a participant's request may set the user reference of its
\* own profile to null
NextEquiv ==
    \/ RegisterPlainStep
    \/ \E a \in Actors :
           ProfileUpdate(a, [field |-> "user", text |-> "", ref |-> None])
    \/ ApproveRejectStep
    \/ BulkApproveRejectStep

SpecEquiv == Init /\ [][NextEquiv]_vars

\* the answer of a single approve_reject is 200
SingleSucceeds(pid, action, reason) ==
    ApprovalValid(action, reason) /\ participants[pid].user # None

\* the participant table after a successful single approve_reject
SingleParticipants(actor, pid, action, reason) ==
    [participants EXCEPT ![pid] = ApproveRejectRow(@, actor, action, reason)]

\* the user table after a successful single approve_reject
SingleUsers(pid, action) ==
    [users EXCEPT ![participants[pid].user].is_active = ActiveAfter(action)]

\* C22: for an HR admin, an existing participant p (with or without linked
\* user), every action and rejection_reason, bulk_approve_reject on the list
\* [p] and single approve_reject on p both fail and change nothing, or both
\* succeed and leave the same participant and user tables.
C22_BulkEqualsSingle ==
    [][\A a \in Actors, pid \in DOMAIN participants, body \in ApprovalBodies :
          (/\ IsHRAdmin(a)
           /\ \/ ApproveReject(a, pid, body[1], body[2])
              \/ BulkApproveReject(a, <<pid>>, body[1], body[2]))
          => IF SingleSucceeds(pid, body[1], body[2])
             THEN /\ last'.code = 200
                  /\ participants' = SingleParticipants(a, pid, body[1], body[2])
                  /\ users' = SingleUsers(pid, body[1])
             ELSE /\ last'.code # 200
                  /\ participants' = participants
                  /\ users' = users]_vars

----------------------------------------------------------------------------
(* bulk_approve_reject, one database statement per step, run by concurrent *)
(* threads.  The loop runs inside transaction.atomic() on rows the thread  *)
(* has locked with select_for_update(): a row a transaction wrote stays    *)
(* locked until its commit, so no other transaction reads it before.       *)

\* the participant and user tables as a request found them
Snapshot ==
    [participants |-> participants, users |-> users]

\* variant: select_for_update() takes no lock
RowLocked_Never(w, pid) ==
    FALSE

\* row pid of the participant table is locked by a transaction other than w's
RowLocked(w, pid) ==
    \E v \in Threads \ {w} :
        requests[v].pc \in {"bulk_select", "bulk_update", "bulk_commit"}
        /\ pid \in requests[v].locked

\* the first row, in key order, of the set rows
FirstRow(rows) ==
    CHOOSE pid \in rows : \A q \in rows : pid <= q

\* serializer.is_valid(raise_exception=True); the existence check on
\* Participant.objects.filter(id__in=participant_ids), outside the
\* transaction.  `start` is history: the tables before the first of the
\* requests in flight or done
BulkBegin(w, actor, ids, action, reason) ==
    /\ requests[w].pc = "idle"
    /\ UNCHANGED <<users, participants, tickets, scans, participantNullable, companies>>
    /\ IF ~IsHRAdmin(actor)
       THEN Finish(w, [Resp("bulk_approve_reject", 403) EXCEPT !.actor = actor])
       ELSE IF ~BulkApprovalValid(ids, action, reason)
       THEN Finish(w, Resp("bulk_approve_reject", 400))
       ELSE IF MissingIds(ids) # << >>
       THEN Finish(w, [Resp("bulk_approve_reject", 400) EXCEPT
                           !.req = ids, !.ids = MissingIds(ids),
                           !.detail = "Some participant IDs were not found."])
       ELSE /\ requests' = [requests EXCEPT ![w] =
                   [pc |-> "bulk_select", actor |-> actor, ids |-> ids,
                    action |-> action, reason |-> ValidatedReason(reason),
                    locked |-> {}, saved |-> {},
                    rows |-> [pid \in DOMAIN participants |-> NoParticipant],
                    start |-> IF \A v \in Threads : requests[v].pc = "idle"
                              THEN Snapshot
                              ELSE requests[CHOOSE v \in Threads :
                                                requests[v].pc # "idle"].start]]
            /\ UNCHANGED last

\* participants_qs.select_for_update(): the statement locks the rows it
\* returns, one after the other in scan order, waits for a row another
\* transaction holds, and returns the row as it is once it has the lock
BulkSelectForUpdate(w) ==
    /\ requests[w].pc = "bulk_select"
    /\ UNCHANGED <<users, participants, tickets, scans, participantNullable, companies, last>>
    /\ LET pid == FirstRow(IdSet(requests[w].ids) \ requests[w].locked)
       IN  /\ ~RowLocked(w, pid)
           /\ requests' = [requests EXCEPT
                  ![w].locked = @ \cup {pid},
                  ![w].rows[pid] = participants[pid],
                  ![w].pc = IF IdSet(requests[w].ids) = requests[w].locked \cup {pid}
                            THEN "bulk_update" ELSE "bulk_select"]

\* one iteration of the loop: user.save(update_fields=['is_active']) if the
\* participant has a user, then participant.save()
BulkUpdate(w) ==
    /\ requests[w].pc = "bulk_update"
    /\ UNCHANGED <<tickets, scans, participantNullable, companies, last>>
    /\ LET pid == FirstRow(requests[w].locked \ requests[w].saved)
           row == requests[w].rows[pid]
       IN  /\ users' = IF row.user # None
                       THEN [users EXCEPT ![row.user].is_active =
                                ActiveAfter(requests[w].action)]
                       ELSE users
           /\ participants' = [participants EXCEPT ![pid] =
                  BulkRow(row, requests[w].actor, requests[w].action,
                          requests[w].reason)]
           /\ requests' = [requests EXCEPT
                  ![w].saved = @ \cup {pid},
                  ![w].pc = IF requests[w].locked = requests[w].saved \cup {pid}
                            THEN "bulk_commit" ELSE "bulk_update"]

\* the end of the atomic block: commit, which releases the row locks
BulkCommit(w) ==
    /\ requests[w].pc = "bulk_commit"
    /\ UNCHANGED <<users, participants, tickets, scans, participantNullable, companies>>
    /\ requests' = [requests EXCEPT ![w].pc = "done", ![w].locked = {}]
    /\ last' = [Resp("bulk_approve_reject", 200) EXCEPT
                    !.req = requests[w].ids, !.action = requests[w].action,
                    !.count = Cardinality(requests[w].saved)]

\* concurrent bulk_approve_reject requests, with bodies that pass
\* ParticipantBulkApprovalSerializer
NextBulkConc ==
    \/ RegisterQuietStep
    \/ \E w \in Threads, a \in Actors :
          \E ids \in BodiesFor(a, IdLists, <<1>>),
             body \in BodiesFor(a, {<<"approved", Absent>>, <<"rejected", "late">>,
                                     <<"pending", Absent>>},
                                 <<"approved", Absent>>) :
              BulkBegin(w, a, ids, body[1], body[2])
    \/ \E w \in Threads : BulkSelectForUpdate(w)
    \/ \E w \in Threads : BulkUpdate(w)
    \/ \E w \in Threads : BulkCommit(w)

SpecBulkConc == Init /\ [][NextBulkConc]_vars

\* the tables after the bulk request of thread w ran alone on the tables db
BulkAlone(w, db) ==
    [participants |-> BulkParticipants(db.participants, requests[w].actor,
                                       requests[w].ids, requests[w].action,
                                       requests[w].reason),
     users |-> BulkUsers(db.users, db.participants, requests[w].ids,
                         requests[w].action)]

\* the threads whose bulk request has committed
BulkDone ==
    {w \in Threads : requests[w].pc = "done"}

\* C23: once the bulk requests in flight have committed, the participant
\* and user tables are the ones that running the requests one after the
\* other, in some order, on the tables they started from produces.
C23_BulkSerialized ==
    (/\ BulkDone # {}
     /\ \A w \in Threads : requests[w].pc \in {"idle", "done"})
    => \E w \in BulkDone :
          LET first == BulkAlone(w, requests[w].start)
          IN  \/ BulkDone = {w} /\ Snapshot = first
              \/ \E v \in BulkDone \ {w} : Snapshot = BulkAlone(v, first)

\* C23 witness: two bulk requests with different actions that share a
\* participant and differ in another have both committed.
C23_Witness ==
    /\ BulkDone = Threads
    /\ requests["t1"].action # requests["t2"].action
    /\ IdSet(requests["t1"].ids) \cap IdSet(requests["t2"].ids) # {}
    /\ IdSet(requests["t1"].ids) # IdSet(requests["t2"].ids)

----------------------------------------------------------------------------
(* approve_reject, one database statement per step, run by concurrent      *)
(* threads.  The handler opens no transaction: each save() commits alone   *)
(* and writes every column of the row from the object the thread loaded.   *)

\* participant = self.get_object(), whose queryset is select_related('user'):
\* one query loads the participant and its user; then the serializer.
\* `start` is history: the tables before the first of the requests
SingleLoad(w, actor, pid, action, reason) ==
    /\ requests[w].pc = "idle"
    /\ UNCHANGED <<users, participants, tickets, scans, participantNullable, companies>>
    /\ IF ~IsHRAdmin(actor)
       THEN Finish(w, [Resp("approve_reject", 403) EXCEPT !.actor = actor])
       ELSE IF pid \notin DOMAIN participants
       THEN Finish(w, Resp("approve_reject", 404))
       ELSE IF ~ApprovalValid(action, reason)
       THEN Finish(w, Resp("approve_reject", 400))
       ELSE IF participants[pid].user = None
       THEN Finish(w, Resp("approve_reject", 500))
       ELSE /\ requests' = [requests EXCEPT ![w] =
                   [pc |-> "single_save_user", actor |-> actor, pid |-> pid,
                    action |-> action, reason |-> reason,
                    p |-> participants[pid],
                    u |-> users[participants[pid].user],
                    start |-> IF \A v \in Threads : requests[v].pc = "idle"
                              THEN Snapshot
                              ELSE requests[CHOOSE v \in Threads :
                                                requests[v].pc # "idle"].start]]
            /\ UNCHANGED last

\* participant.user.is_active = ...; participant.user.save()
SingleSaveUser(w) ==
    /\ requests[w].pc = "single_save_user"
    /\ UNCHANGED <<participants, tickets, scans, participantNullable, companies, last>>
    /\ users' = [users EXCEPT ![requests[w].p.user] =
                    [requests[w].u EXCEPT !.is_active = ActiveAfter(requests[w].action)]]
    /\ requests' = [requests EXCEPT ![w].pc = "single_save_participant"]

\* participant.save(); Response
SingleSaveParticipant(w) ==
    /\ requests[w].pc = "single_save_participant"
    /\ UNCHANGED <<users, tickets, scans, participantNullable, companies>>
    /\ participants' = [participants EXCEPT ![requests[w].pid] =
           ApproveRejectRow(requests[w].p, requests[w].actor,
                            requests[w].action, requests[w].reason)]
    /\ requests' = [requests EXCEPT ![w].pc = "done"]
    /\ last' = [Resp("approve_reject", 200) EXCEPT
                    !.pid = requests[w].pid, !.action = requests[w].action,
                    !.before = requests[w].p.status]

\* concurrent approve_reject requests
NextSingleConc ==
    \/ RegisterQuietStep
    \/ \E w \in Threads, a \in Actors :
          \E pid \in BodiesFor(a, 1..(Len(participants) + 1), 1),
             body \in BodiesFor(a, ApprovalBodies, <<"approved", Absent>>) :
              SingleLoad(w, a, pid, body[1], body[2])
    \/ \E w \in Threads : SingleSaveUser(w)
    \/ \E w \in Threads : SingleSaveParticipant(w)

SpecSingleConc == Init /\ [][NextSingleConc]_vars

\* the participant row the request of thread w stores when it finds row p
SingleRow(w, p) ==
    ApproveRejectRow(p, requests[w].actor, requests[w].action, requests[w].reason)

\* C24: once two concurrent approve_reject requests on one participant have
\* both answered, the participant row and the active flag of its user are
\* together the complete effect of one of the two requests: the row that
\* request stores (on the row the requests found, or on the row the other
\* request stored) and the active flag that request gives.
C24_LastWriteWins ==
    (/\ \A w \in Threads : requests[w].pc = "done"
     /\ requests["t1"].pid = requests["t2"].pid)
    => \E w \in Threads :
          LET pid == requests[w].pid
              found == requests[w].start.participants[pid]
          IN  /\ users[participants[pid].user].is_active
                     = ActiveAfter(requests[w].action)
              /\ \/ participants[pid] = SingleRow(w, found)
                 \/ \E v \in Threads \ {w} :
                       participants[pid] = SingleRow(w, SingleRow(v, found))

----------------------------------------------------------------------------
(* The own-profile read endpoint *)

\* permission_classes = [IsAuthenticated, IsParticipant, IsHRAdmin]: the
\* request passes if every class of the list grants it (IsParticipant
\* grants it to an authenticated user whose role is PARTICIPANT)
ProfileViewPermitted(actor) ==
    /\ IsAuthenticated(actor)
    /\ users[actor].role = PARTICIPANT
    /\ IsHRAdmin(actor)

\* GET participants/profile
ProfileView(actor) ==
    /\ UNCHANGED <<users, participants, tickets, scans, participantNullable, companies, requests>>
    /\ IF ~ProfileViewPermitted(actor)
       THEN last' = [Resp("profile", 403) EXCEPT !.actor = actor]
       ELSE IF \A pid \in DOMAIN participants : participants[pid].user # actor
       THEN \* request.user.participant_profile raises: AttributeError
            last' = [Resp("profile", 404) EXCEPT !.actor = actor]
       ELSE last' = [Resp("profile", 200) EXCEPT
                         !.actor = actor,
                         !.pid = CHOOSE pid \in DOMAIN participants :
                                     participants[pid].user = actor]

\* own-profile reads by HR, company and participant accounts
NextProfileView ==
    \/ RegisterPlainStep
    \/ ApproveRejectStep
    \/ \E a \in Actors : ProfileView(a)

SpecProfileView == InitRoles /\ [][NextProfileView]_vars

\* C25: a GET participants/profile of an authenticated PARTICIPANT user
\* that owns a participant record is answered 200 with that record; the
\* request of any user that owns no participant record is denied.
C25_OwnProfileRead ==
    [][\A a \in Actors :
          ProfileView(a)
          => IF /\ a # Anonymous
                /\ users[a].role = PARTICIPANT
                /\ \E pid \in DOMAIN participants : participants[pid].user = a
             THEN /\ last'.code = 200
                  /\ participants[last'.pid].user = a
             ELSE last'.code # 200]_vars

----------------------------------------------------------------------------
(* Registration, one database statement per step, run by concurrent        *)
(* threads.  The inserts run inside transaction.atomic(): the new rows are *)
(* held by the thread and become visible to the others at commit.          *)

\* variant: an uncommitted insert does not hold the unique index
PendingConflict_None(w, e) ==
    FALSE

\* the insert of a user with e-mail e by thread w meets the uncommitted
\* insert of another transaction on a unique index (email, username): the
\* statement waits for that transaction to end
PendingConflict(w, e) ==
    \E v \in Threads \ {w} :
        /\ requests[v].pc \in {"reg_create_participant", "reg_commit"}
        /\ \/ NormalizeEmail(requests[v].email) = NormalizeEmail(e)
           \/ requests[v].email = e

\* serializer.is_valid(): validate_email reads the committed users.  kind
\* is "register" (public) or "manual_register" (IsHRAdmin)
RegValidate(w, kind, actor, e) ==
    /\ requests[w].pc = "idle"
    /\ UNCHANGED <<users, participants, tickets, scans, participantNullable, companies>>
    /\ IF kind = "manual_register" /\ ~IsHRAdmin(actor)
       THEN Finish(w, Resp(kind, 403))
       ELSE IF ~validate_email(e)
       THEN Finish(w, Resp(kind, 400))
       ELSE /\ requests' = [requests EXCEPT ![w] =
                   [pc |-> "reg_create_user", kind |-> kind, email |-> e]]
            /\ UNCHANGED last

\* User.objects.create_user(email, username=email, is_active=False, role='P')
RegCreateUser(w) ==
    /\ requests[w].pc = "reg_create_user"
    /\ ~PendingConflict(w, requests[w].email)
    /\ UNCHANGED <<users, participants, tickets, scans, participantNullable, companies>>
    /\ IF UserIntegrityError(requests[w].email)
       THEN \* the exception leaves transaction.atomic(): rolled back
            Finish(w, [Resp(requests[w].kind, 500) EXCEPT
                           !.detail = "IntegrityError"])
       ELSE /\ requests' = [requests EXCEPT ![w].pc = "reg_create_participant"]
            /\ UNCHANGED last

\* Participant.objects.create(user=user, ...); manual registration then
\* sets status APPROVED and saves.  fault is a database error of the insert
RegCreateParticipant(w, fault) ==
    /\ requests[w].pc = "reg_create_participant"
    /\ UNCHANGED <<users, participants, tickets, scans, participantNullable, companies>>
    /\ IF fault
       THEN Finish(w, Resp(requests[w].kind, 500))
       ELSE /\ requests' = [requests EXCEPT ![w].pc = "reg_commit"]
            /\ UNCHANGED last

\* the end of the atomic block: both rows are committed
RegCommit(w) ==
    /\ requests[w].pc = "reg_commit"
    /\ UNCHANGED <<tickets, scans, participantNullable, companies>>
    /\ users' = Append(users, NewUser(requests[w].email))
    /\ participants' = Append(participants,
           [NewParticipant(Len(users) + 1) EXCEPT !.status =
               IF requests[w].kind = "manual_register" THEN APPROVED ELSE PENDING])
    /\ Finish(w, [Resp(requests[w].kind, 201) EXCEPT !.pid = Len(participants) + 1])

\* concurrent public and manual registrations
NextRegConc ==
    \/ \E w \in Threads, e \in Emails : RegValidate(w, "register", Anonymous, e)
    \/ \E w \in Threads, a \in Actors :
          \E e \in BodiesFor(a, Emails, "a@x.com") :
              RegValidate(w, "manual_register", a, e)
    \/ \E w \in Threads : RegCreateUser(w)
    \/ \E w \in Threads, fault \in BOOLEAN : RegCreateParticipant(w, fault)
    \/ \E w \in Threads : RegCommit(w)

SpecRegConc == Init /\ [][NextRegConc]_vars

\* C26: under every interleaving of public and manual registrations no two
\* users have the same e-mail address, and every user a registration
\* created (role PARTICIPANT) is the user of exactly one participant.
C26_EmailsUnique ==
    /\ \A u, v \in DOMAIN users : u # v => users[u].email # users[v].email
    /\ \A u \in DOMAIN users :
          users[u].role = PARTICIPANT
          => Cardinality({pid \in DOMAIN participants :
                             participants[pid].user = u}) = 1

\* C26 witness: a registration that passed validate_email is about to
\* insert its user while a concurrent registration with the same e-mail
\* address has committed.
C26_Witness ==
    \E w \in Threads :
        /\ requests[w].pc = "reg_create_user"
        /\ \E u \in DOMAIN users :
              /\ users[u].username = requests[w].email
              /\ \E pid \in DOMAIN participants : participants[pid].user = u

----------------------------------------------------------------------------
(* Companies: CompanyViewSet.create and update, one database statement per *)
(* step, run by concurrent threads.  The handlers open no transaction and  *)
(* Company.name carries no unique constraint.                              *)

\* company names a request may carry (" " is blank once stripped)
CompanyNames == {" ", "Acme", "ACME", "Beta"}

\* str.lower() / the case folding of name__iexact
Lower(name) ==
    IF name \in {"Acme", "ACME"} THEN "acme"
    ELSE IF name = "Beta" THEN "beta" ELSE name

\* Company.objects.filter(name__iexact=name).exists()
NameExists(name) ==
    \E c \in DOMAIN companies : Lower(companies[c].name) = Lower(name)

\* CompanyViewSet.create up to the duplicate check (IsHRAdmin; the name is
\* stripped and required)
CompanyCreateCheck(w, actor, name, email) ==
    /\ requests[w].pc = "idle"
    /\ UNCHANGED <<users, participants, tickets, scans, companies, participantNullable>>
    /\ IF ~IsHRAdmin(actor)
       THEN Finish(w, [Resp("company_create", 403) EXCEPT !.actor = actor])
       ELSE IF Trim(name) = ""
       THEN Finish(w, [Resp("company_create", 400) EXCEPT
                           !.detail = "Company name is required."])
       ELSE IF NameExists(Trim(name))
       THEN Finish(w, [Resp("company_create", 400) EXCEPT
                           !.detail = "Company with this name already exists."])
       ELSE /\ requests' = [requests EXCEPT ![w] =
                   [pc |-> "company_user", name |-> name, email |-> email]]
            /\ UNCHANGED last

\* CustomUser.objects.get_or_create(email__iexact=email, defaults={role:
\* COMPANY, is_active: True})
CompanyGetOrCreateUser(w) ==
    /\ requests[w].pc = "company_user"
    /\ UNCHANGED <<participants, tickets, scans, companies, participantNullable, last>>
    /\ users' = IF \E u \in DOMAIN users : users[u].email = requests[w].email
                THEN users
                ELSE Append(users, [email |-> requests[w].email,
                                    username |-> requests[w].email,
                                    role |-> COMPANY, is_active |-> TRUE])
    /\ requests' = [requests EXCEPT ![w].pc = "company_insert"]

\* super().create(): CompanySerializer saves the row (the serializer has no
\* user field: the company's user stays null), then the account's role is
\* set to COMPANY if it is another
CompanyInsert(w) ==
    /\ requests[w].pc = "company_insert"
    /\ UNCHANGED <<participants, tickets, scans, participantNullable>>
    /\ companies' = Append(companies, [name |-> Trim(requests[w].name),
                                       user |-> None])
    /\ users' = [u \in DOMAIN users |->
                    IF users[u].email = requests[w].email
                    THEN [users[u] EXCEPT !.role = COMPANY]
                    ELSE users[u]]
    /\ Finish(w, [Resp("company_create", 201) EXCEPT !.pid = Len(companies) + 1])

\* CompanyViewSet.update up to the duplicate check: instance = get_object();
\* the check is skipped when the name is blank or is the instance's own
\* name up to case
CompanyUpdateCheck(w, actor, cid, name) ==
    /\ requests[w].pc = "idle"
    /\ UNCHANGED <<users, participants, tickets, scans, companies, participantNullable>>
    /\ IF ~IsHRAdmin(actor)
       THEN Finish(w, [Resp("company_update", 403) EXCEPT !.actor = actor])
       ELSE IF cid \notin DOMAIN companies
       THEN Finish(w, Resp("company_update", 404))
       ELSE IF /\ Trim(name) # ""
               /\ Lower(Trim(name)) # Lower(companies[cid].name)
               /\ NameExists(Trim(name))
       THEN Finish(w, [Resp("company_update", 400) EXCEPT
                           !.detail = "Company with this name already exists."])
       ELSE /\ requests' = [requests EXCEPT ![w] =
                   [pc |-> "company_save", name |-> name, cid |-> cid,
                    instance |-> companies[cid]]]
            /\ UNCHANGED last

\* super().update(): the serializer refuses a blank name, else saves the
\* instance with the new name
CompanySave(w) ==
    /\ requests[w].pc = "company_save"
    /\ UNCHANGED <<users, participants, tickets, scans, participantNullable>>
    /\ IF Trim(requests[w].name) = ""
       THEN /\ UNCHANGED companies
            /\ Finish(w, [Resp("company_update", 400) EXCEPT
                              !.detail = "name: may not be blank"])
       ELSE /\ companies' = [companies EXCEPT ![requests[w].cid] =
                   [requests[w].instance EXCEPT !.name = Trim(requests[w].name)]]
            /\ Finish(w, [Resp("company_update", 200) EXCEPT !.pid = requests[w].cid])

\* concurrent company create and update requests
NextCompany ==
    \/ \E w \in Threads, a \in Actors :
          \E name \in BodiesFor(a, CompanyNames, "Acme"),
             email \in BodiesFor(a, {"c1@x.com", "c2@x.com"}, "c1@x.com") :
              CompanyCreateCheck(w, a, name, email)
    \/ \E w \in Threads : CompanyGetOrCreateUser(w)
    \/ \E w \in Threads : CompanyInsert(w)
    \/ \E w \in Threads, a \in Actors :
          \E cid \in BodiesFor(a, 1..(Len(companies) + 1), 1),
             name \in BodiesFor(a, CompanyNames, "Acme") :
              CompanyUpdateCheck(w, a, cid, name)
    \/ \E w \in Threads : CompanySave(w)

SpecCompany == Init /\ [][NextCompany]_vars

\* C27: under every interleaving of company create and update requests no
\* two companies have names that are equal ignoring case.
C27_CompanyNamesUnique ==
    \A c, d \in DOMAIN companies :
        c # d => Lower(companies[c].name) # Lower(companies[d].name)

----------------------------------------------------------------------------
(* The dashboard's recent-activity feed.  The tables of the model carry no *)
(* timestamps: a request draws the registered_at, updated_at and created_at *)
(* values of the rows it reads.                                            *)

\* request.query_params.get('limit', 20)
DefaultLimit == 20

\* limit values a request may carry
Limits == {-1, 0, 1, 2, 20}

\* list.sort(key=timestamp, reverse=True) inserts x behind the entries whose
\* timestamp is not smaller: entries with equal timestamps keep their order
RECURSIVE InsertDesc(_, _)
InsertDesc(sorted, x) ==
    IF sorted = << >> THEN <<x>>
    ELSE IF Head(sorted).timestamp >= x.timestamp
    THEN <<Head(sorted)>> \o InsertDesc(Tail(sorted), x)
    ELSE <<x>> \o sorted

\* the list sorted by timestamp, latest first (a stable sort)
RECURSIVE SortDesc(_)
SortDesc(list) ==
    IF list = << >> THEN << >>
    ELSE InsertDesc(SortDesc(SubSeq(list, 1, Len(list) - 1)), list[Len(list)])

\* the Python slice list[:n]: a negative n counts from the end
SliceTo(list, n) ==
    IF n >= 0
    THEN SubSeq(list, 1, IF n > Len(list) THEN Len(list) ELSE n)
    ELSE SubSeq(list, 1, IF Len(list) + n > 0 THEN Len(list) + n ELSE 0)

\* the entries of the rows of table (in key order) whose key is in keep,
\* stamped by at
Entries(type, table, keep, at) ==
    LET rows == SelectSeq([i \in DOMAIN table |-> i], LAMBDA i : i \in keep)
    IN  [i \in DOMAIN rows |->
            [type |-> type, timestamp |-> at[rows[i]], id |-> rows[i]]]

\* the four queries of the feed, each ordered latest first and cut ([:10],
\* [:10], [:10] and [:5]), appended in the order registrations, approvals,
\* check-ins, companies.  Timestamps are 0 (older than thirty days), 1
\* (older than seven days) or 2 (recent): the approvals query keeps rows
\* updated within seven days, the companies query rows created within
\* thirty.  No scan row passes scan_result='check_in' unless the log holds
\* such a row
Activities(regAt, updAt, coAt) ==
    SliceTo(SortDesc(Entries("registration", participants,
                             DOMAIN participants, regAt)), 10)
    \o SliceTo(SortDesc(Entries("approval", participants,
                                {pid \in DOMAIN participants :
                                    /\ participants[pid].status = "approved"
                                    /\ updAt[pid] >= 2},
                                updAt)), 10)
    \o SliceTo(SortDesc(Entries("company", companies,
                                {c \in DOMAIN companies : coAt[c] >= 1},
                                coAt)),
               5)

\* GET dashboard/recent-activity/ (IsAuthenticated): given tells whether
\* the query string carries limit
RecentActivity(actor, given, limit, regAt, updAt, coAt) ==
    /\ UNCHANGED <<users, participants, tickets, scans, companies, participantNullable, requests>>
    /\ IF ~IsAuthenticated(actor)
       THEN last' = Resp("recent_activity", 403)
       ELSE IF \E i \in DOMAIN scans : scans[i].scan_result = "check_in"
       THEN \* the loop reads scan.scanned_at, which TicketScan does not have
            last' = Resp("recent_activity", 500)
       ELSE last' = [Resp("recent_activity", 200) EXCEPT
                         !.activities =
                             SliceTo(SortDesc(Activities(regAt, updAt, coAt)),
                                     IF given THEN limit ELSE DefaultLimit),
                         !.count = Len(Activities(regAt, updAt, coAt))]

\* timestamps of the rows of a table: a row inserted later is not older
Stamps(table) ==
    {at \in [DOMAIN table -> 0..2] :
        \A i, j \in DOMAIN table : i < j => at[i] <= at[j]}

\* the feed over a registration, a ticket assignment and company creations
NextFeed ==
    \/ RegisterPlainStep
    \/ GenerateUnassignedTickets(1, <<"GT2025AA">>)
    \/ AssignTicket(1, 1, "GT2025AA")
    \/ \E name \in {"Acme", "Beta"} : CompanyCreateCheck("t1", 1, name, "c1@x.com")
    \/ CompanyGetOrCreateUser("t1")
    \/ CompanyInsert("t1")
    \/ \E a \in Actors :
          \E given \in BodiesFor(a, BOOLEAN, FALSE) :
            \E limit \in IF given THEN Limits ELSE {DefaultLimit},
               regAt \in BodiesFor(a, Stamps(participants),
                                   [p \in DOMAIN participants |-> 0]),
               coAt \in BodiesFor(a, Stamps(companies),
                                  [c \in DOMAIN companies |-> 0]) :
                \* auto_now: a row is not updated before it is inserted
                \E updAt \in BodiesFor(a, {at \in [DOMAIN participants -> 0..2] :
                                              \A p \in DOMAIN participants :
                                                  at[p] >= regAt[p]},
                                       regAt) :
                    RecentActivity(a, given, limit, regAt, updAt, coAt)

SpecFeed == Init /\ [][NextFeed]_vars

\* C28: a recent-activity request with an integer limit (20 when none is
\* given) answered 200 returns a list sorted by timestamp, latest first,
\* that is a prefix of the sorted merged activities: none of the activities
\* left out is later than a returned one; its length is the smaller of the
\* limit and the number of activities, and never more than the limit (a
\* list has no length below zero: a limit below zero is read as leaving
\* nothing).
C28_FeedSortedAndTruncated ==
    [][\A a \in Actors, given \in BOOLEAN, limit \in Limits,
          regAt \in Stamps(participants), coAt \in Stamps(companies) :
          \A updAt \in [DOMAIN participants -> 0..2] :
              (/\ RecentActivity(a, given, limit, regAt, updAt, coAt)
               /\ last'.code = 200)
              => LET out == last'.activities
                     all == Activities(regAt, updAt, coAt)
                     lim == IF given THEN limit ELSE DefaultLimit
                 IN  /\ \A i, j \in DOMAIN out :
                           i < j => out[i].timestamp >= out[j].timestamp
                     /\ \A i \in DOMAIN out : \E k \in DOMAIN all : all[k] = out[i]
                     /\ \A k \in DOMAIN all :
                           (\A i \in DOMAIN out : out[i] # all[k])
                           => \A i \in DOMAIN out :
                                 all[k].timestamp <= out[i].timestamp
                     /\ Len(out) = (IF lim < 0 THEN 0
                                    ELSE IF lim < Len(all) THEN lim ELSE Len(all))
                     /\ Len(out) <= (IF lim < 0 THEN 0 ELSE lim)]_vars

----------------------------------------------------------------------------
(* Setting a password, and the activation of the linked account *)

\* POST set-password (AllowAny).  In the body uid is None and email is
\* Absent when the field is missing, token is "" when missing and "ok" when
\* default_token_generator.check_token accepts it for the user (the mailed
\* tokens are not part of the state), password is the password's length.
\* email__iexact compares ignoring case: the addresses of Emails differ in
\* case in the domain part only
SetPassword(body) ==
    /\ UNCHANGED <<participants, tickets, scans, participantNullable, companies, requests>>
    /\ IF /\ body.email # Absent /\ body.password > 0
          /\ body.uid = None /\ body.token = ""
       THEN \* the email flow
            IF ~\E u \in DOMAIN users :
                    NormalizeEmail(users[u].email) = NormalizeEmail(body.email)
            THEN /\ UNCHANGED users
                 /\ last' = [Resp("set_password", 400) EXCEPT !.detail = "Invalid email"]
            ELSE LET u == CHOOSE u \in DOMAIN users :
                              NormalizeEmail(users[u].email) = NormalizeEmail(body.email)
                     profile == {p \in DOMAIN participants : participants[p].user = u}
                 IN  IF users[u].role # PARTICIPANT
                     THEN /\ UNCHANGED users
                          /\ last' = Resp("set_password", 403)
                     ELSE IF profile = {}
                     THEN /\ UNCHANGED users
                          /\ last' = Resp("set_password", 404)
                     ELSE IF \E p \in profile : participants[p].status # APPROVED
                     THEN /\ UNCHANGED users
                          /\ last' = [Resp("set_password", 400) EXCEPT
                                          !.detail = "Your account is not approved yet."]
                     ELSE IF body.password < 8
                     THEN /\ UNCHANGED users
                          /\ last' = [Resp("set_password", 400) EXCEPT
                                          !.detail = "Password must be at least 8 characters."]
                     ELSE /\ users' = [users EXCEPT ![u].is_active = TRUE]
                          /\ last' = [Resp("set_password", 200) EXCEPT !.holder = u]
       ELSE \* the token flow
            IF body.uid = None \/ body.token = "" \/ body.password = 0
            THEN /\ UNCHANGED users
                 /\ last' = [Resp("set_password", 400) EXCEPT
                                 !.detail = "Missing required fields"]
            ELSE IF body.uid \notin DOMAIN users
            THEN /\ UNCHANGED users
                 /\ last' = [Resp("set_password", 400) EXCEPT !.detail = "Invalid user ID"]
            ELSE IF body.token # "ok"
            THEN /\ UNCHANGED users
                 /\ last' = [Resp("set_password", 400) EXCEPT
                                 !.detail = "Invalid or expired token"]
            ELSE /\ users' = [users EXCEPT ![body.uid].is_active = TRUE]
                 /\ last' = [Resp("set_password", 200) EXCEPT !.holder = body.uid]

\* every operation that writes a participant's status or an account's
\* is_active, the privileged ones called by the HR admin with bodies that
\* pass validation
NextActivation ==
    \/ RegisterPlainStep
    \/ ManualRegister(1, "b@x.com", FALSE)
    \/ \E pid \in DOMAIN participants,
          body \in {<<"approved", Absent>>, <<"rejected", "late">>,
                    <<"pending", Absent>>} :
           ApproveReject(1, pid, body[1], body[2])
    \/ \E pid \in DOMAIN participants,
          body \in {<<"approved", Absent>>, <<"rejected", "late">>,
                    <<"pending", Absent>>} :
           BulkApproveReject(1, <<pid>>, body[1], body[2])
    \/ GenerateUnassignedTickets(1, <<"GT2025AA">>)
    \/ \E pid \in DOMAIN participants : AssignTicket(1, pid, "GT2025AA")
    \/ \E pid \in DOMAIN participants : ManualPayment(1, pid, "GT2025AB")
    \/ \E body \in [uid : {None} \cup (1..(Len(users) + 1)),
                     token : {"", "ok", "bad"},
                     email : {Absent, "a@X.COM", "b@x.com", "hr@x.com"},
                     password : {0, 7, 8}] :
           SetPassword(body)

SpecActivation == Init /\ [][NextActivation]_vars

\* C29: a participant with status APPROVED has an active linked account and
\* a participant with status REJECTED has an inactive linked account.
C29_ActivationFollowsStatus ==
    \A p \in DOMAIN participants :
        LET u == participants[p].user
        IN  /\ participants[p].status = APPROVED
               => u # None /\ users[u].is_active
            /\ participants[p].status = REJECTED
               => u # None /\ ~users[u].is_active

----------------------------------------------------------------------------
(* Public ticket verification *)

\* GET tickets/verify/{serial_number}/ (AllowAny)
VerifyTicket(serial) ==
    /\ UNCHANGED <<users, participants, tickets, scans, participantNullable, companies, requests>>
    /\ IF serial \notin SerialsOf(tickets)
       THEN last' = [Resp("verify", 404) EXCEPT !.detail = "Ticket not found"]
       ELSE IF tickets[TicketBySerial(serial)].participant = None
       THEN \* the response reads ticket.participant.full_name
            last' = [Resp("verify", 500) EXCEPT !.serial = serial]
       ELSE last' = [Resp("verify", 200) EXCEPT
                         !.serial = serial,
                         !.detail = tickets[TicketBySerial(serial)].status,
                         !.can_checkin =
                             tickets[TicketBySerial(serial)].status \in {"active", "used"}]

\* the ticket operations and the public verification
NextVerify ==
    \/ RegisterPlainStep
    \/ GenerateUnassignedTicketsStep
    \/ AssignTicketStep
    \/ CancelTicketStep
    \/ CheckInStep
    \/ \E serial \in Serials \cup {"GT2025ZZ"} : VerifyTicket(serial)

SpecVerify == Init /\ [][NextVerify]_vars

\* C30: after a verification answered 200, the reported can_checkin is true
\* exactly when a check-in call with action check_in on the same ticket, in
\* the same state, is answered 200 (the verification changes no ticket; the
\* scan log has room for the call's row).
C30_VerifyAgreesWithCheckIn ==
    (/\ last.op = "verify" /\ last.code = 200
     /\ Len(scans) < MaxScans)
    => (last.can_checkin
        <=> ENABLED (/\ CheckIn(1, last.serial, "check_in")
                     /\ last'.code = 200))

====
